---------------------------- MODULE Spec2Model ----------------------------
(***************************************************************************)
(* Verification model of williamChen26/ai-code-review.                     *)
(*                                                                         *)
(*   SpecAgent : the bounded ReAct loop, app/agent/runtime.py, with the    *)
(*               step schema (app/agent/schemas.py) and the three tools    *)
(*               (app/agent/tools/*.py).                                   *)
(*   SpecIndex : the indexing orchestrator, app/indexing/indexer.py, over  *)
(*               the Postgres store, app/storage/pg.py.                    *)
(*                                                                         *)
(* Texts are TLC strings; Len, SubSeq and \o act on them character by      *)
(* character.                                                              *)
(***************************************************************************)
EXTENDS Integers, Sequences, FiniteSets, Bags, TLC

VARIABLES
    \* ---- the indexer and the index store (app/indexing/indexer.py, app/storage/pg.py) ----
    fs,            \* the repository directory: path -> text, or Missing
    file_index,    \* committed rows of table file_index
    code_chunks,   \* committed rows of table code_chunks (a bag)
    tx,            \* rows of code_chunks as the open transaction sees them
    ipc,           \* position of the indexing call
    call,          \* the call in progress and what it has done so far
    paths,         \* _index_paths: argument `paths`
    idx,           \* _index_paths: position of `for path in paths`
    entries,       \* _index_paths: local `entries`
    cur,           \* the file being indexed: path, chunks, embeddings, rows inserted
    last,          \* history: the call that completed last
    \* ---- two indexing runs at a time (app/review/orchestrator.py handlers) ----
    runs,          \* run -> position and locals of its _index_paths
    \* ---- context retrieval (app/review/context_retrieval.py, diff_parser.py) ----
    retrieval,     \* the function applied last, its arguments and its result
    \* ---- the tools, the chunker and the configuration loader, called on their own ----
    invocation,    \* the function called, its arguments and, once returned, its result
    \* ---- run_react_agent (app/agent/runtime.py) ----
    pc,            \* position of the run: called, thinking, parsing, done, failed
    max_steps,     \* argument max_steps
    user_prompt,   \* argument user_prompt
    messages,      \* local list `messages`, the transcript
    step,          \* completed iterations of `for _ in range(max_steps)`
    raw,           \* local `raw`, the last model output
    result,        \* the returned string ("" while none)
    error,         \* the exception that left the function ("" while none)
    modelCalls,    \* number of llm_client.complete_text calls made
    toolExecs,     \* number of tool_executor calls made
    seen,          \* history: the transcript handed to each complete_text call
    turns,         \* history: what each complete_text call returned
    outcome        \* how the run ended: none, final, fallback, error

agentVars == <<pc, max_steps, user_prompt, messages, step, raw, result, error,
               modelCalls, toolExecs, seen, turns, outcome>>

indexVars == <<fs, file_index, code_chunks, tx, ipc, call, paths, idx, entries, cur, last>>

raceVars == <<runs>>

retrievalVars == <<retrieval>>

fnVars == <<invocation>>

vars == <<agentVars, indexVars, raceVars, retrievalVars, fnVars>>

\* no transaction is open
NoTx == [open |-> FALSE]

\* no call is in progress
IdleCall ==
    [op |-> "none", changed |-> <<>>, deleted |-> <<>>, empty |-> FALSE,
     reads |-> 0, embeds |-> 0, writes |-> 0, fulls |-> 0, files |-> 0,
     prevRet |-> "none", prevEmpty |-> FALSE, prevFiles |-> 0,
     unfinished |-> {}, prevUnfinished |-> {}, ioError |-> FALSE]

\* no file is being indexed
NoCur == [path |-> "", chunks |-> <<>>, embeddings |-> <<>>, k |-> 0]

\* no call has completed since the repository directory last changed
NoEvent ==
    [op |-> "none", ret |-> "none", empty |-> FALSE,
     reads |-> 0, embeds |-> 0, writes |-> 0, fulls |-> 0, files |-> 0,
     prevRet |-> "none", prevEmpty |-> FALSE, prevFiles |-> 0,
     unfinished |-> {}, reattempted |-> TRUE, ioError |-> FALSE]

\* the locals of an indexing call when none is running
IndexLocalsAtRest ==
    /\ tx = NoTx
    /\ call = IdleCall
    /\ paths = <<>>
    /\ idx = 1
    /\ entries = <<>>
    /\ cur = NoCur
    /\ last = NoEvent

\* the indexer takes no part in a run of the agent
IndexOff ==
    /\ fs = <<>>
    /\ file_index = {}
    /\ code_chunks = <<>>
    /\ ipc = "off"
    /\ IndexLocalsAtRest

\* no second indexing run takes part
RaceOff == runs = <<>>

\* no retrieval function has been applied
RetrievalOff == retrieval = [fn |-> "none"]

\* no function is called on its own
InvocationOff == invocation = [fn |-> "none"]

-----------------------------------------------------------------------------
(* Bounds of the model.                                                    *)

\* largest step budget a run is started with
MaxSteps == 3

\* largest number of chunks of the file handed to _embed_chunks on its own
MaxChunks == 70

\* longest batch handed to upsert_file_index_entries on its own
MaxBatch == 2

\* most lines of a diff put together from DiffLines
MaxDiffLines == 3

\* longest list handed to _merge_chunks on either side
MaxMerge == 2

\* last line of the files whose chunks are stored for the line-range query
MaxLine == 4

\* longest list of patterns handed to find_risky_pattern
MaxPatterns == 2

\* largest max_lines handed to get_diff_chunk
MaxLinesArg == 4

\* the step budgets a run is started with (non-positive budgets included)
StepBudgets == (0 - 1)..MaxSteps

-----------------------------------------------------------------------------
(* Text helpers (Python str methods used by the source).                   *)

Min(a, b) == IF a <= b THEN a ELSE b

Max(a, b) == IF a >= b THEN a ELSE b

\* s[i], 1-based
CharAt(s, i) == SubSeq(s, i, i)

\* str.startswith
StartsWith(s, p) == Len(s) >= Len(p) /\ SubSeq(s, 1, Len(p)) = p

\* `p in s` for strings
Contains(s, p) ==
    \E i \in 1..(Len(s) - Len(p) + 1) : SubSeq(s, i, i + Len(p) - 1) = p

IsLineBreak(c) == c \in {"\n", "\r"}

IsSpace(c) == c \in {" ", "\t", "\n", "\r", "\f"}

\* `not s.strip()`: s holds white space only
IsBlank(s) == \A i \in 1..Len(s) : IsSpace(CharAt(s, i))

\* the positions where a line terminator of s ends: "\n", or "\r" unless a
\* "\n" follows it ("\r\n" is one terminator)
LineEnds(s) ==
    {i \in 1..Len(s) :
        \/ CharAt(s, i) = "\n"
        \/ CharAt(s, i) = "\r" /\ ~(i < Len(s) /\ CharAt(s, i + 1) = "\n")}

\* str.splitlines(): no trailing empty line, "" has no lines
SplitLines(s) ==
    LET ends == LineEnds(s)
        n == Cardinality(ends)
        end(k) == IF k = 0 THEN 0
                  ELSE CHOOSE i \in ends : Cardinality({j \in ends : j < i}) = k - 1
        width(i) == IF CharAt(s, i) = "\n" /\ i > 1 /\ CharAt(s, i - 1) = "\r" THEN 2 ELSE 1
        rest == IF end(n) < Len(s) THEN <<SubSeq(s, end(n) + 1, Len(s))>> ELSE <<>>
    IN [k \in 1..n |-> SubSeq(s, end(k - 1) + 1, end(k) - width(end(k)))] \o rest

RECURSIVE JoinFrom(_, _, _)
JoinFrom(sep, parts, i) ==
    IF i > Len(parts) THEN ""
    ELSE IF i = Len(parts) THEN parts[i]
    ELSE parts[i] \o sep \o JoinFrom(sep, parts, i + 1)

\* sep.join(parts)
Join(sep, parts) == JoinFrom(sep, parts, 1)

-----------------------------------------------------------------------------
(* JSON values: tagged records.                                            *)

JStr(s) == [t |-> "str", s |-> s]
JInt(n) == [t |-> "int", i |-> n]
JList(l) == [t |-> "list", l |-> l]
JObj(o) == [t |-> "obj", o |-> o]

IsStr(v) == v.t = "str"
IsInt(v) == v.t = "int"
IsObj(v) == v.t = "obj"
IsList(v) == v.t = "list"
HasKey(v, k) == IsObj(v) /\ k \in DOMAIN v.o

RECURSIVE EscapeFrom(_, _)
EscapeFrom(s, i) ==
    IF i > Len(s) THEN ""
    ELSE LET c == CharAt(s, i)
             e == IF c = "\n" THEN "\\n"
                  ELSE IF c = "\r" THEN "\\r"
                  ELSE IF c = "\t" THEN "\\t"
                  ELSE IF c = "\"" THEN "\\\""
                  ELSE IF c = "\\" THEN "\\\\"
                  ELSE c
         IN e \o EscapeFrom(s, i + 1)

RECURSIVE JsonDumps(_)
RECURSIVE DumpItems(_, _)
RECURSIVE DumpMembers(_, _)

\* json.dumps(value, ensure_ascii=False), default separators
JsonDumps(v) ==
    IF IsStr(v) THEN "\"" \o EscapeFrom(v.s, 1) \o "\""
    ELSE IF IsInt(v) THEN ToString(v.i)
    ELSE IF IsList(v) THEN "[" \o DumpItems(v.l, 1) \o "]"
    ELSE "{" \o DumpMembers(v.o, DOMAIN v.o) \o "}"

DumpItems(l, i) ==
    IF i > Len(l) THEN ""
    ELSE JsonDumps(l[i]) \o (IF i < Len(l) THEN ", " ELSE "") \o DumpItems(l, i + 1)

DumpMembers(o, keys) ==
    IF keys = {} THEN ""
    ELSE LET k == CHOOSE x \in keys : TRUE
         IN "\"" \o k \o "\": " \o JsonDumps(o[k])
            \o (IF keys = {k} THEN "" ELSE ", ") \o DumpMembers(o, keys \ {k})

-----------------------------------------------------------------------------
(* ToolContext and the three tools (app/agent/tools).                      *)

\* ToolContext.diff_by_path of the run (read-only during the run)
DiffByPath ==
    [p \in {"a.py", "bad.py", "empty.py"} |->
        IF p = "a.py"
        THEN "@@ -1,2 +1,3 @@\n import os\n+if x and y:\n+    eval(x)\n-old"
        ELSE IF p = "bad.py"
        THEN "+++ b/bad.py\n+def f(:\n+    pass"
        ELSE ""]

ToolOk(obs) == [ok |-> TRUE, obs |-> obs]
ToolRaise(e) == [ok |-> FALSE, error |-> e]

\* get_diff_chunk without the slice lines[: args.max_lines]
get_diff_chunk_Unbounded(args, ctx) ==
    IF args.max_lines <= 0 THEN ToolRaise("ValueError")
    ELSE IF args.path \notin DOMAIN ctx THEN ToolRaise("KeyError")
    ELSE ToolOk(JStr(Join("\n", SplitLines(ctx[args.path]))))

\* get_diff_chunk(args, ctx): the first max_lines lines of the path's diff
get_diff_chunk(args, ctx) ==
    IF args.max_lines <= 0 THEN ToolRaise("ValueError")
    ELSE IF args.path \notin DOMAIN ctx THEN ToolRaise("KeyError")
    ELSE LET lines == SplitLines(ctx[args.path])
         IN ToolOk(JStr(Join("\n", SubSeq(lines, 1, Min(args.max_lines, Len(lines))))))

RECURSIVE RiskyLoop(_, _, _, _)
\* the `for pattern in args.patterns` loop of find_risky_pattern
RiskyLoop(patterns, diff, i, hits) ==
    IF i > Len(patterns) THEN ToolOk(JObj([hits |-> JList(hits)]))
    ELSE IF patterns[i] = "" THEN ToolRaise("ValueError")
    ELSE RiskyLoop(patterns, diff, i + 1,
                   IF Contains(diff, patterns[i])
                   THEN Append(hits, JStr(patterns[i])) ELSE hits)

\* find_risky_pattern(args, ctx)
find_risky_pattern(args, ctx) ==
    IF args.path \notin DOMAIN ctx THEN ToolRaise("KeyError")
    ELSE RiskyLoop(args.patterns, ctx[args.path], 1, <<>>)

RECURSIVE AddedLinesFrom(_, _)
AddedLinesFrom(lines, i) ==
    IF i > Len(lines) THEN <<>>
    ELSE LET line == lines[i]
         IN IF StartsWith(line, "+++ ") \/ StartsWith(line, "--- ") \/ StartsWith(line, "@@")
            THEN AddedLinesFrom(lines, i + 1)
            ELSE IF StartsWith(line, "+") /\ ~StartsWith(line, "++")
                 THEN <<SubSeq(line, 2, Len(line))>> \o AddedLinesFrom(lines, i + 1)
                 ELSE AddedLinesFrom(lines, i + 1)

\* _extract_added_python_lines_from_diff(diff)
ExtractAddedPythonLines(diff) == Join("\n", AddedLinesFrom(SplitLines(diff), 1))

\* ast.parse followed by the ast.walk count of branch nodes, for the Python
\* fragments the diffs of the model hold: -1 stands for SyntaxError.
\*   "if x and y:\n    eval(x)"  has one If and one BoolOp;
\*   "def f(:\n    pass"         does not parse;
\*   the function of test_complexity.py has one If and one For;
\*   "+(a and b)"                 has one BoolOp;
\*   "    eval(x)"                does not parse (unexpected indent);
\*   "y = 2"                      has none.
AstBranchNodes(code) ==
    IF code = "if x and y:\n    eval(x)" THEN 2
    ELSE IF code = "def f(:\n    pass" THEN 0 - 1
    ELSE IF code = "def f(x):\n    if x:\n        return 1\n    for i in range(3):\n        pass"
    THEN 2
    ELSE IF code = "+(a and b)" THEN 1
    ELSE IF code = "    eval(x)" THEN 0 - 1
    ELSE 0

\* calc_python_complexity(args, ctx)
calc_python_complexity(args, ctx) ==
    IF args.path \notin DOMAIN ctx THEN ToolRaise("KeyError")
    ELSE LET code == ExtractAddedPythonLines(ctx[args.path])
         IN IF IsBlank(code) THEN ToolOk(JObj([complexity |-> JInt(0)]))
            ELSE IF AstBranchNodes(code) < 0 THEN ToolRaise("SyntaxError")
            ELSE ToolOk(JObj([complexity |-> JInt(1 + AstBranchNodes(code))]))

\* execute_tool(action, ctx): dispatch on call.name (app/agent/tools/registry.py)
execute_tool(action, ctx) ==
    IF action.call.name = "get_diff_chunk" THEN get_diff_chunk(action.call.args, ctx)
    ELSE IF action.call.name = "find_risky_pattern" THEN find_risky_pattern(action.call.args, ctx)
    ELSE IF action.call.name = "calc_python_complexity"
         THEN calc_python_complexity(action.call.args, ctx)
    ELSE ToolRaise("ValueError")

-----------------------------------------------------------------------------
(* Model outputs, json.loads and the step schema (app/agent/schemas.py).   *)

RawFinal == "{\"kind\": \"final\", \"answer\": \"LGTM\"}"
RawChunk == "{\"kind\": \"action\", \"call\": {\"name\": \"get_diff_chunk\", \"args\": {\"path\": \"a.py\", \"max_lines\": 2}}}"
RawChunkMissing == "{\"kind\": \"action\", \"call\": {\"name\": \"get_diff_chunk\", \"args\": {\"path\": \"missing.py\", \"max_lines\": 1}}}"
RawChunkZero == "{\"kind\": \"action\", \"call\": {\"name\": \"get_diff_chunk\", \"args\": {\"path\": \"a.py\", \"max_lines\": 0}}}"
RawRisky == "{\"kind\": \"action\", \"call\": {\"name\": \"find_risky_pattern\", \"args\": {\"path\": \"a.py\", \"patterns\": [\"eval(\", \"os.system\"]}}}"
RawRiskyEmpty == "{\"kind\": \"action\", \"call\": {\"name\": \"find_risky_pattern\", \"args\": {\"path\": \"a.py\", \"patterns\": [\"eval(\", \"\"]}}}"
RawComplexity == "{\"kind\": \"action\", \"call\": {\"name\": \"calc_python_complexity\", \"args\": {\"path\": \"a.py\"}}}"
RawComplexityBad == "{\"kind\": \"action\", \"call\": {\"name\": \"calc_python_complexity\", \"args\": {\"path\": \"bad.py\"}}}"
RawUnknownTool == "{\"kind\": \"action\", \"call\": {\"name\": \"rm_rf\", \"args\": {\"path\": \"a.py\"}}}"
RawNoAnswer == "{\"kind\": \"final\"}"
RawList == "[1]"
RawProse == "The change looks fine."

\* the texts complete_text returns in the model
RawOutputs ==
    {RawFinal, RawChunk, RawChunkMissing, RawChunkZero, RawRisky, RawRiskyEmpty,
     RawComplexity, RawComplexityBad, RawUnknownTool, RawNoAnswer, RawList, RawProse}

JsonDecodeError == [t |-> "JSONDecodeError"]

ActionJson(name, args) ==
    JObj([kind |-> JStr("action"), call |-> JObj([name |-> JStr(name), args |-> JObj(args)])])

\* json.loads on the texts of RawOutputs
JsonLoads(r) ==
    IF r = RawFinal THEN JObj([kind |-> JStr("final"), answer |-> JStr("LGTM")])
    ELSE IF r = RawChunk
    THEN ActionJson("get_diff_chunk", [path |-> JStr("a.py"), max_lines |-> JInt(2)])
    ELSE IF r = RawChunkMissing
    THEN ActionJson("get_diff_chunk", [path |-> JStr("missing.py"), max_lines |-> JInt(1)])
    ELSE IF r = RawChunkZero
    THEN ActionJson("get_diff_chunk", [path |-> JStr("a.py"), max_lines |-> JInt(0)])
    ELSE IF r = RawRisky
    THEN ActionJson("find_risky_pattern",
                    [path |-> JStr("a.py"), patterns |-> JList(<<JStr("eval("), JStr("os.system")>>)])
    ELSE IF r = RawRiskyEmpty
    THEN ActionJson("find_risky_pattern",
                    [path |-> JStr("a.py"), patterns |-> JList(<<JStr("eval("), JStr("")>>)])
    ELSE IF r = RawComplexity
    THEN ActionJson("calc_python_complexity", [path |-> JStr("a.py")])
    ELSE IF r = RawComplexityBad
    THEN ActionJson("calc_python_complexity", [path |-> JStr("bad.py")])
    ELSE IF r = RawUnknownTool THEN ActionJson("rm_rf", [path |-> JStr("a.py")])
    ELSE IF r = RawNoAnswer THEN JObj([kind |-> JStr("final")])
    ELSE IF r = RawList THEN JList(<<JInt(1)>>)
    ELSE JsonDecodeError

StepError(e) == [kind |-> "error", error |-> e]

\* a value that does not validate
Invalid == [invalid |-> TRUE]

\* the `str` field `k` of object v is present and a string
StrField(v, k) == HasKey(v, k) /\ IsStr(v.o[k])

\* GetDiffChunkArgs / FindRiskyPatternArgs / CalcPythonComplexityArgs: the
\* validated args of the call named `name`, or Invalid
ValidateArgs(name, a) ==
    IF ~IsObj(a) \/ ~StrField(a, "path") THEN Invalid
    ELSE IF name = "get_diff_chunk"
    THEN IF HasKey(a, "max_lines") /\ IsInt(a.o["max_lines"])
         THEN [path |-> a.o["path"].s, max_lines |-> a.o["max_lines"].i]
         ELSE Invalid
    ELSE IF name = "find_risky_pattern"
    THEN IF HasKey(a, "patterns") /\ IsList(a.o["patterns"])
            /\ \A i \in 1..Len(a.o["patterns"].l) : IsStr(a.o["patterns"].l[i])
         THEN [path |-> a.o["path"].s,
               patterns |-> [i \in 1..Len(a.o["patterns"].l) |-> a.o["patterns"].l[i].s]]
         ELSE Invalid
    ELSE [path |-> a.o["path"].s]

\* ToolCall: the union of the three calls discriminated by "name"
ValidateToolCall(c) ==
    IF ~StrField(c, "name") \/ ~HasKey(c, "args") THEN Invalid
    ELSE IF c.o["name"].s \notin {"get_diff_chunk", "find_risky_pattern", "calc_python_complexity"}
    THEN Invalid
    ELSE IF ValidateArgs(c.o["name"].s, c.o["args"]) = Invalid THEN Invalid
    ELSE [name |-> c.o["name"].s, args |-> ValidateArgs(c.o["name"].s, c.o["args"])]

\* The union AgentAction | AgentFinal discriminated by "kind", as the schema
\* declares it: what validating a parsed value against AgentStep yields.
ValidateAgentStep(v) ==
    IF ~StrField(v, "kind") THEN StepError("ValidationError")
    ELSE IF v.o["kind"].s = "final"
    THEN IF StrField(v, "answer")
         THEN [kind |-> "final", answer |-> v.o["answer"].s]
         ELSE StepError("ValidationError")
    ELSE IF v.o["kind"].s = "action"
    THEN IF HasKey(v, "call") /\ ValidateToolCall(v.o["call"]) /= Invalid
         THEN [kind |-> "action", call |-> ValidateToolCall(v.o["call"])]
         ELSE StepError("ValidationError")
    ELSE StepError("ValidationError")

\* a validation that takes an unregistered tool name for a default tool
AgentStep_model_validate_DefaultTool(parsed) ==
    IF IsObj(parsed) /\ StrField(parsed, "kind") /\ parsed.o["kind"].s = "action"
        /\ HasKey(parsed, "call") /\ IsObj(parsed.o["call"])
        /\ StrField(parsed.o["call"], "name") /\ HasKey(parsed.o["call"], "args")
        /\ parsed.o["call"].o["name"].s
               \notin {"get_diff_chunk", "find_risky_pattern", "calc_python_complexity"}
        /\ ValidateArgs("calc_python_complexity", parsed.o["call"].o["args"]) /= Invalid
    THEN [kind |-> "action",
          call |-> [name |-> "calc_python_complexity",
                    args |-> ValidateArgs("calc_python_complexity",
                                          parsed.o["call"].o["args"])]]
    ELSE StepError("AttributeError")

\* AgentStep.model_validate(parsed), runtime.py line 78.  AgentStep is the
\* typing alias Annotated[Union[AgentAction, AgentFinal], Field(...)]
\* (schemas.py line 57), not a BaseModel class: the alias forwards the
\* attribute lookup to typing.Union, which has no model_validate, so the
\* expression raises AttributeError before any validation takes place.
AgentStep_model_validate(parsed) == StepError("AttributeError")

\* a parser that takes free text for the final answer
ParseAgentStep_FreeText(r) ==
    IF JsonLoads(r) = JsonDecodeError THEN [kind |-> "final", answer |-> r]
    ELSE AgentStep_model_validate(JsonLoads(r))

\* _parse_agent_step(raw)
ParseAgentStep(r) ==
    IF JsonLoads(r) = JsonDecodeError THEN StepError("ValueError")
    ELSE AgentStep_model_validate(JsonLoads(r))

-----------------------------------------------------------------------------
(* run_react_agent (app/agent/runtime.py).                                 *)

\* build_react_instructions() (app/agent/prompt.py), abbreviated
ReactInstructions == "You are the code review agent. Reply with pure JSON."

\* the user prompts a run is started with
UserPrompts == {"review a.py", "review bad.py"}

FallbackAnswer == "Review incomplete (step limit reached)"

\* llm_client.complete_text raised (it wraps every failure in RuntimeError)
LlmError == "<complete_text raises RuntimeError>"

ChatMessage(role, content) == [role |-> role, content |-> content]

\* the two messages appended after a tool execution, lines 61-67
ObservationTurns(r, observation) ==
    <<ChatMessage("assistant", r),
      ChatMessage("user", "{\"observation\": " \o JsonDumps(observation) \o "}")>>

\* the transcript as seeded by lines 44-47
SeedMessages(prompt) ==
    <<ChatMessage("system", ReactInstructions), ChatMessage("user", prompt)>>

InitAgent ==
    /\ pc = "called"
    /\ max_steps \in StepBudgets
    /\ user_prompt \in UserPrompts
    /\ messages = <<>>
    /\ step = 0
    /\ raw = ""
    /\ result = ""
    /\ error = ""
    /\ modelCalls = 0
    /\ toolExecs = 0
    /\ seen = <<>>
    /\ turns = <<>>
    /\ outcome = "none"
    /\ IndexOff
    /\ RaceOff
    /\ RetrievalOff
    /\ InvocationOff

\* a budget accepted as invalid only when negative
BudgetInvalid_NegativeOnly(n) == n < 0

\* line 41: `if max_steps <= 0`
BudgetInvalid(n) == n <= 0

\* an exception swallowed by the loop, which asks the model again
Raise_Retry(e) ==
    /\ pc' = "thinking"
    /\ UNCHANGED <<error, outcome>>

\* an exception raised inside run_react_agent: the function has no
\* try/except, so the exception leaves it and the run is over
Raise(e) ==
    /\ pc' = "failed"
    /\ error' = e
    /\ outcome' = "error"

\* lines 41-47: the budget check, then the seeding of the transcript
AgentStart ==
    /\ pc = "called"
    /\ IF BudgetInvalid(max_steps)
       THEN /\ Raise("ValueError")
            /\ UNCHANGED messages
       ELSE /\ pc' = "thinking"
            /\ messages' = SeedMessages(user_prompt)
            /\ UNCHANGED <<error, outcome>>
    /\ UNCHANGED <<max_steps, user_prompt, step, raw, result, modelCalls, toolExecs,
                   seen, turns>>
    /\ UNCHANGED <<indexVars, raceVars, retrievalVars, fnVars>>

\* lines 49-51: one iteration's complete_text call
AgentModelCall ==
    /\ pc = "thinking"
    /\ step < max_steps
    /\ modelCalls' = modelCalls + 1
    /\ seen' = Append(seen, messages)
    /\ \E out \in RawOutputs \cup {LlmError} :
          /\ turns' = Append(turns, out)
          /\ IF out = LlmError
             THEN /\ Raise("RuntimeError")
                  /\ UNCHANGED raw
             ELSE /\ pc' = "parsing"
                  /\ raw' = out
                  /\ UNCHANGED <<error, outcome>>
    /\ UNCHANGED <<max_steps, user_prompt, messages, step, result, toolExecs>>
    /\ UNCHANGED <<indexVars, raceVars, retrievalVars, fnVars>>

\* lines 52-69: parse the turn; return a Final; else execute the tool, append
\* the two turns and go on to the next iteration, or to the fallback return
\* of line 69 when the budget is used up
AgentHandleTurn ==
    /\ pc = "parsing"
    /\ LET st == ParseAgentStep(raw)
       IN IF st.kind = "error"
          THEN /\ Raise(st.error)
               /\ UNCHANGED <<messages, step, result, toolExecs>>
          ELSE IF st.kind = "final"
          THEN /\ pc' = "done"
               /\ result' = st.answer
               /\ outcome' = "final"
               /\ UNCHANGED <<messages, step, error, toolExecs>>
          ELSE LET o == execute_tool(st, DiffByPath)
               IN /\ toolExecs' = toolExecs + 1
                  /\ IF ~o.ok
                     THEN /\ Raise(o.error)
                          /\ UNCHANGED <<messages, step, result>>
                     ELSE /\ messages' = messages \o ObservationTurns(raw, o.obs)
                          /\ step' = step + 1
                          /\ UNCHANGED error
                          /\ IF step + 1 < max_steps
                             THEN /\ pc' = "thinking"
                                  /\ UNCHANGED <<result, outcome>>
                             ELSE /\ pc' = "done"
                                  /\ result' = FallbackAnswer
                                  /\ outcome' = "fallback"
    /\ UNCHANGED <<max_steps, user_prompt, raw, modelCalls, seen, turns>>
    /\ UNCHANGED <<indexVars, raceVars, retrievalVars, fnVars>>

NextAgent == AgentStart \/ AgentModelCall \/ AgentHandleTurn

SpecAgent == InitAgent /\ [][NextAgent]_vars

\* Every external call (complete_text, the tool) returns or raises: a run that
\* can take a step eventually takes it.
FairSpecAgent == SpecAgent /\ WF_vars(NextAgent)

-----------------------------------------------------------------------------
(* Claims about run_react_agent.                                           *)

Terminal == pc \in {"done", "failed"}

\* what the schema makes of a returned text: a step, or an error
SchemaStep(r) == ValidateAgentStep(JsonLoads(r))

\* the text is a valid Action / a valid Final of the schema
ValidAction(r) == SchemaStep(r).kind = "action"
ValidFinal(r) == SchemaStep(r).kind = "final"

\* the tool result of the valid Action r
ToolResultOf(r) == execute_tool(SchemaStep(r), DiffByPath)

\* the valid Action r names a tool call that succeeds
GoodAction(r) == ValidAction(r) /\ ToolResultOf(r).ok

\* C1: a run with budget N >= 1 whose every model turn is a valid Action with
\* a succeeding tool makes exactly N model calls and N tool executions and
\* then returns the fixed fallback answer as a normal result.
C1_AllActionsReachFallback ==
    (/\ Terminal
     /\ max_steps >= 1
     /\ \A i \in 1..Len(turns) : GoodAction(turns[i]))
    => (/\ outcome = "fallback"
        /\ result = FallbackAnswer
        /\ error = ""
        /\ modelCalls = max_steps
        /\ toolExecs = max_steps)

\* C2: a run whose k-th model turn is the first valid Final, after k-1 valid
\* Actions with succeeding tools, returns that Final's answer after exactly k
\* model calls and k-1 tool executions.
C2_FinalReturnsAnswer ==
    (/\ Terminal
     /\ Len(turns) >= 1
     /\ ValidFinal(turns[Len(turns)])
     /\ \A i \in 1..(Len(turns) - 1) : GoodAction(turns[i]))
    => (/\ outcome = "final"
        /\ result = SchemaStep(turns[Len(turns)]).answer
        /\ error = ""
        /\ modelCalls = Len(turns)
        /\ toolExecs = Len(turns) - 1)

\* C3: a step whose model output is not valid JSON or does not validate as
\* an Action or a Final ends the run with an error in that very step: no tool
\* execution, nothing appended to the transcript, no further model call; and
\* a run that has ended takes no further step (no retry).
C3_InvalidStepAborts ==
    [][/\ ~Terminal
       /\ (pc = "parsing" /\ ~ValidAction(raw) /\ ~ValidFinal(raw))
          => (/\ pc' = "failed"
              /\ outcome' = "error"
              /\ error' /= ""
              /\ toolExecs' = toolExecs
              /\ messages' = messages
              /\ modelCalls' = modelCalls)]_vars

C3_Witness ==
    /\ pc = "failed"
    /\ raw = RawNoAnswer
    /\ error /= ""
    /\ modelCalls = 1
    /\ toolExecs = 0
    /\ Len(messages) = 2

\* C4: a run started with max_steps <= 0 fails with an input error before any
\* model call, before any tool execution and before the transcript is built.
C4_NonPositiveBudgetFailsFast ==
    max_steps <= 0 =>
        /\ modelCalls = 0
        /\ toolExecs = 0
        /\ messages = <<>>
        /\ seen = <<>>
        /\ pc \in {"called", "failed"}
        /\ pc = "failed" => (error = "ValueError" /\ outcome = "error" /\ result = "")

C4_Witness == pc = "failed" /\ max_steps = 0 /\ error = "ValueError" /\ modelCalls = 0

\* C5: a run with budget N >= 1 whose external calls all return ends, in
\* exactly one of the outcomes final, error, fallback; and at every point it
\* has made at most N model calls and at most as many tool executions as
\* model calls.
C5_TerminatesWithinBudget ==
    /\ [](max_steps >= 1 =>
            /\ modelCalls <= max_steps
            /\ toolExecs <= modelCalls
            /\ Terminal <=> outcome \in {"final", "error", "fallback"}
            /\ outcome = "error" <=> error /= ""
            /\ outcome = "final" => pc = "done"
            /\ outcome = "fallback" => (pc = "done" /\ result = FallbackAnswer))
    /\ (max_steps >= 1 => <>Terminal)

C5_Witness == Terminal /\ max_steps = MaxSteps /\ modelCalls >= 1 /\ outcome = "error"

\* the model turns the run has finished handling
Handled == IF pc = "parsing" THEN Len(turns) - 1 ELSE Len(turns)

\* the (assistant, user) pair of the i-th turn is at its place in transcript m
PairAt(m, i) ==
    /\ Len(m) >= 2 * i + 2
    /\ m[2 * i + 1] = [role |-> "assistant", content |-> turns[i]]
    /\ m[2 * i + 2] =
          [role |-> "user",
           content |-> "{\"observation\": " \o JsonDumps(ToolResultOf(turns[i]).obs) \o "}"]

\* C6: once seeded the transcript is [system instructions, user prompt]
\* followed by one (assistant, user) pair per completed tool execution (each
\* handled valid Action whose tool succeeded), the assistant turn being the
\* raw text of the Action and the user turn the one-key "observation" object
\* with the serialized tool result; the model call of iteration i is handed
\* exactly the pairs of iterations 1..i-1.
C6_TranscriptHoldsPairs ==
    /\ (pc /= "called" /\ max_steps >= 1) =>
          /\ Len(messages) = 2 + 2 * step
          /\ messages[1] = [role |-> "system", content |-> ReactInstructions]
          /\ messages[2] = [role |-> "user", content |-> user_prompt]
    /\ \A n \in 1..Handled :
          (\A i \in 1..n : GoodAction(turns[i])) => PairAt(messages, n)
    /\ \A k \in 1..Len(seen) :
          /\ Len(seen[k]) = 2 * k
          /\ \A i \in 1..(k - 1) : PairAt(seen[k], i)

\* C7: when the tool of a valid Action raises, that error leaves
\* run_react_agent: the run ends failed with the tool's error, with neither
\* turn of the step appended and with no further model call or tool execution.
C7_ToolErrorPropagates ==
    (/\ Terminal
     /\ Len(turns) >= 1
     /\ ValidAction(turns[Len(turns)])
     /\ ~ToolResultOf(turns[Len(turns)]).ok
     /\ \A i \in 1..(Len(turns) - 1) : GoodAction(turns[i]))
    => (/\ pc = "failed"
        /\ error = ToolResultOf(turns[Len(turns)]).error
        /\ toolExecs = Len(turns)
        /\ Len(messages) = 2 * Len(turns))

-----------------------------------------------------------------------------
(* Paths, languages and the chunking engine (app/indexing/chunker.py,      *)
(* app/review/context.py).                                                 *)

\* build_repo_id("gitlab", "1")
RepoId == "gitlab:1"

\* str.endswith
EndsWith(s, p) == Len(s) >= Len(p) /\ SubSeq(s, Len(s) - Len(p) + 1, Len(s)) = p

UpperLetters == "ABCDEFGHIJKLMNOPQRSTUVWXYZ"
LowerLetters == "abcdefghijklmnopqrstuvwxyz"

RECURSIVE LowerFrom(_, _)
LowerFrom(s, i) ==
    IF i > Len(s) THEN ""
    ELSE LET c == CharAt(s, i)
             up == {k \in 1..26 : CharAt(UpperLetters, k) = c}
         IN (IF up = {} THEN c ELSE CharAt(LowerLetters, CHOOSE k \in up : TRUE))
            \o LowerFrom(s, i + 1)

\* str.lower (ASCII letters)
Lower(s) == LowerFrom(s, 1)

\* infer_language_from_path(path)
infer_language_from_path(path) ==
    LET lowered == Lower(path)
    IN IF EndsWith(lowered, ".py") THEN "python"
       ELSE IF EndsWith(lowered, ".ts") \/ EndsWith(lowered, ".tsx") THEN "typescript"
       ELSE IF EndsWith(lowered, ".js") \/ EndsWith(lowered, ".jsx") THEN "javascript"
       ELSE IF EndsWith(lowered, ".go") THEN "go"
       ELSE IF EndsWith(lowered, ".java") THEN "java"
       ELSE IF EndsWith(lowered, ".rb") THEN "ruby"
       ELSE IF EndsWith(lowered, ".php") THEN "php"
       ELSE IF EndsWith(lowered, ".rs") THEN "rust"
       ELSE IF EndsWith(lowered, ".sql") THEN "sql"
       ELSE "unknown"

\* _sha256(text): a hash, taken to be injective on the texts of the model
Sha256(text) == "sha256:" \o text

\* str.strip()
Strip(s) ==
    LET solid == {i \in 1..Len(s) : ~IsSpace(CharAt(s, i))}
    IN IF solid = {} THEN ""
       ELSE SubSeq(s, CHOOSE i \in solid : \A j \in solid : i <= j,
                   CHOOSE i \in solid : \A j \in solid : j <= i)

CodeChunk(repo_id, path, symbol_name, symbol_type, start_line, end_line, content) ==
    [repo_id |-> repo_id, path |-> path, symbol_name |-> symbol_name,
     symbol_type |-> symbol_type, start_line |-> start_line, end_line |-> end_line,
     content |-> content, checksum |-> Sha256(content)]

RECURSIVE ImportLinesFrom(_, _)
\* the `for idx, line in enumerate(lines, start=1)` loop of _build_import_chunk
ImportLinesFrom(lines, i) ==
    IF i > Len(lines) THEN <<>>
    ELSE LET stripped == Strip(lines[i])
         IN (IF StartsWith(stripped, "import ") \/ StartsWith(stripped, "from ")
             THEN <<[idx |-> i, line |-> lines[i]]>> ELSE <<>>)
            \o (IF StartsWith(stripped, "export ")
                THEN <<[idx |-> i, line |-> lines[i]]>> ELSE <<>>)
            \o ImportLinesFrom(lines, i + 1)

\* _build_import_chunk with the lines from the first to the last import line
\* as content
BuildImportChunk_Span(repo_id, path, lines) ==
    LET import_lines == ImportLinesFrom(lines, 1)
    IN IF import_lines = <<>> THEN <<>>
       ELSE <<CodeChunk(repo_id, path, "__imports__", "module_imports",
                        import_lines[1].idx, import_lines[Len(import_lines)].idx,
                        Join("\n", SubSeq(lines, import_lines[1].idx,
                                          import_lines[Len(import_lines)].idx)))>>

\* _build_import_chunk(repo_id, path, lines): <<>> stands for None
BuildImportChunk(repo_id, path, lines) ==
    LET import_lines == ImportLinesFrom(lines, 1)
    IN IF import_lines = <<>> THEN <<>>
       ELSE <<CodeChunk(repo_id, path, "__imports__", "module_imports",
                        import_lines[1].idx, import_lines[Len(import_lines)].idx,
                        Join("\n", [k \in 1..Len(import_lines) |-> import_lines[k].line]))>>

\* _build_file_chunk with end_line = line_count
BuildFileChunk_NoFloor(repo_id, path, content) ==
    CodeChunk(repo_id, path, "__file__", "file", 1, Len(SplitLines(content)), content)

\* _build_file_chunk(repo_id, path, content)
BuildFileChunk(repo_id, path, content) ==
    LET line_count == Len(SplitLines(content))
    IN CodeChunk(repo_id, path, "__file__", "file", 1,
                 IF line_count > 0 THEN line_count ELSE 1, content)

\* the file contents of the model
ContentV1 == "import os\ndef f():\n    return 1\n"
ContentV2 == "x = 1\n"
Contents == {ContentV1, ContentV2}

\* stands for the text of a file of more than MAX_FILE_BYTES bytes
ContentLarge == "# a file of 1000001 bytes\n"

\* _try_get_parser(language): tree_sitter_language_pack has a parser for every
\* language infer_language_from_path names, and none for "unknown"
HasParser(language) == language /= "unknown"

\* parser.parse(content): the nodes of the syntax tree in document order, as
\* [type, start_row, end_row, name] with 0-based rows, for the contents of the
\* model (tree-sitter is a library; its output is given, not computed).
SyntaxTree(language, content) ==
    IF language = "python" /\ content = ContentV1
    THEN <<[type |-> "module", start_row |-> 0, end_row |-> 3, name |-> ""],
           [type |-> "import_statement", start_row |-> 0, end_row |-> 0, name |-> ""],
           [type |-> "function_definition", start_row |-> 1, end_row |-> 2, name |-> "f"]>>
    ELSE IF language = "python" /\ content = ContentV2
    THEN <<[type |-> "module", start_row |-> 0, end_row |-> 1, name |-> ""],
           [type |-> "expression_statement", start_row |-> 0, end_row |-> 0, name |-> ""]>>
    ELSE IF language = "python"
            /\ content = "import os\nfrom typing import Any\n\ndef add(a: int, b: int) -> int:\n    return a + b"
    THEN <<[type |-> "module", start_row |-> 0, end_row |-> 4, name |-> ""],
           [type |-> "import_statement", start_row |-> 0, end_row |-> 0, name |-> ""],
           [type |-> "import_from_statement", start_row |-> 1, end_row |-> 1, name |-> ""],
           [type |-> "function_definition", start_row |-> 3, end_row |-> 4, name |-> "add"]>>
    ELSE IF language = "python" /\ content = "import os\nx = 1\nfrom a import b\n"
    THEN <<[type |-> "module", start_row |-> 0, end_row |-> 3, name |-> ""],
           [type |-> "import_statement", start_row |-> 0, end_row |-> 0, name |-> ""],
           [type |-> "expression_statement", start_row |-> 1, end_row |-> 1, name |-> ""],
           [type |-> "import_from_statement", start_row |-> 2, end_row |-> 2, name |-> ""]>>
    ELSE IF language = "python" /\ content = "class A:\n    def m(self):\n        pass\n"
    THEN <<[type |-> "module", start_row |-> 0, end_row |-> 3, name |-> ""],
           [type |-> "class_definition", start_row |-> 0, end_row |-> 2, name |-> "A"],
           [type |-> "function_definition", start_row |-> 1, end_row |-> 2, name |-> "m"]>>
    ELSE IF language = "typescript" /\ content = "export function g() {}\n"
    THEN <<[type |-> "program", start_row |-> 0, end_row |-> 1, name |-> ""],
           [type |-> "export_statement", start_row |-> 0, end_row |-> 0, name |-> ""],
           [type |-> "function_declaration", start_row |-> 0, end_row |-> 0, name |-> "g"]>>
    ELSE <<[type |-> "module", start_row |-> 0, end_row |-> 0, name |-> ""]>>

\* _node_types_for_language(language)
NodeTypesForLanguage(language) ==
    IF language = "python" THEN {"function_definition", "class_definition"}
    ELSE IF language \in {"javascript", "typescript"}
    THEN {"function_declaration", "class_declaration", "method_definition"}
    ELSE IF language = "go" THEN {"function_declaration", "method_declaration", "type_spec"}
    ELSE IF language = "java" THEN {"method_declaration", "class_declaration"}
    ELSE {}

\* _collect_symbol_nodes(language, root)
CollectSymbolNodes(language, tree) ==
    SelectSeq(tree, LAMBDA n : n.type \in NodeTypesForLanguage(language))

\* _node_to_chunk(repo_id, path, node, lines): <<>> stands for None
NodeToChunk(repo_id, path, node, lines) ==
    LET start_line == node.start_row + 1
        end_line == node.end_row + 1
    IN IF start_line < 1 \/ end_line < start_line THEN <<>>
       ELSE <<CodeChunk(repo_id, path,
                        IF node.name = "" THEN "anonymous" ELSE node.name,
                        node.type, start_line, end_line,
                        Join("\n", SubSeq(lines, start_line, Min(end_line, Len(lines)))))>>

RECURSIVE NodeChunksFrom(_, _, _, _, _)
NodeChunksFrom(repo_id, path, nodes, lines, i) ==
    IF i > Len(nodes) THEN <<>>
    ELSE NodeToChunk(repo_id, path, nodes[i], lines)
         \o NodeChunksFrom(repo_id, path, nodes, lines, i + 1)

\* chunk_file with the whole-file chunk appended in every case
chunk_file_AlwaysFallback(repo_id, path, content) ==
    LET language == infer_language_from_path(path)
        lines == SplitLines(content)
        imports == BuildImportChunk(repo_id, path, lines)
        nodes == IF HasParser(language)
                 THEN CollectSymbolNodes(language, SyntaxTree(language, content)) ELSE <<>>
    IN imports \o NodeChunksFrom(repo_id, path, nodes, lines, 1)
           \o <<BuildFileChunk(repo_id, path, content)>>

\* chunk_file without the whole-file chunk
chunk_file_NoFallback(repo_id, path, content) ==
    LET language == infer_language_from_path(path)
        lines == SplitLines(content)
        imports == BuildImportChunk(repo_id, path, lines)
        nodes == IF HasParser(language)
                 THEN CollectSymbolNodes(language, SyntaxTree(language, content)) ELSE <<>>
    IN imports \o NodeChunksFrom(repo_id, path, nodes, lines, 1)

\* chunk_file(repo_id, path, content)
chunk_file(repo_id, path, content) ==
    LET language == infer_language_from_path(path)
        lines == SplitLines(content)
        imports == BuildImportChunk(repo_id, path, lines)
    IN IF ~HasParser(language)
       THEN Append(imports, BuildFileChunk(repo_id, path, content))
       ELSE LET nodes == CollectSymbolNodes(language, SyntaxTree(language, content))
            IN imports \o NodeChunksFrom(repo_id, path, nodes, lines, 1)
               \o (IF nodes = <<>> THEN <<BuildFileChunk(repo_id, path, content)>> ELSE <<>>)

-----------------------------------------------------------------------------
(* The repository directory and the index store (app/indexing/indexer.py,  *)
(* app/indexing/file_scanner.py, app/storage/pg.py).                       *)

\* a path with no file behind it
Missing == "<missing>"

\* the files the repository directory can hold, in os.walk order; notes.md
\* and large.py are always there and are never eligible, the one for its
\* extension and the other for its size
TrackedPaths == {"a.py", "b.py"}
RepoPaths == <<"a.py", "b.py", "large.py", "notes.md">>
RepoDirs ==
    {d \in [{"a.py", "b.py", "large.py", "notes.md"} -> Contents \cup {ContentLarge, Missing}] :
        /\ d["notes.md"] = ContentV2
        /\ d["large.py"] = ContentLarge
        /\ \A path \in TrackedPaths : d[path] /= ContentLarge}

MAX_FILE_BYTES == 1000000
EMBED_BATCH_SIZE == 32
\* the allow-list with the Markdown extension added
ALLOWED_EXTENSIONS_WithMarkdown ==
    {".py", ".ts", ".tsx", ".js", ".jsx", ".go", ".java", ".rb", ".php", ".rs", ".sql", ".md"}

ALLOWED_EXTENSIONS ==
    {".py", ".ts", ".tsx", ".js", ".jsx", ".go", ".java", ".rb", ".php", ".rs", ".sql"}

RECURSIVE LastIndexOf(_, _, _)
LastIndexOf(s, c, i) ==
    IF i < 1 THEN 0
    ELSE IF CharAt(s, i) = c THEN i
    ELSE LastIndexOf(s, c, i - 1)

\* os.path.splitext(path)[1]
SplitExt(path) ==
    LET sep == LastIndexOf(path, "/", Len(path))
        dot == LastIndexOf(path, ".", Len(path))
    IN IF dot > sep /\ (\E k \in (sep + 1)..(dot - 1) : CharAt(path, k) /= ".")
       THEN SubSeq(path, dot, Len(path))
       ELSE ""

\* os.path.exists(os.path.join(repo_dir, path))
PathExists(dir, path) == path \in DOMAIN dir /\ dir[path] /= Missing

\* os.path.getsize: the texts of the model are ASCII, and ContentLarge stands
\* for a text longer than itself
FileSize(content) == IF content = ContentLarge THEN MAX_FILE_BYTES + 1 ELSE Len(content)

\* scan_repo_files(repo_dir, allowed_extensions, max_bytes), as relative paths
scan_repo_files(dir, allowed_extensions, max_bytes) ==
    SelectSeq(RepoPaths,
              LAMBDA path : /\ PathExists(dir, path)
                            /\ Lower(SplitExt(path)) \in allowed_extensions
                            /\ FileSize(dir[path]) <= max_bytes)

\* one embedding vector, standing for the vector the service computes for a text
EmbedText(text) == "emb:" \o text

\* llm_client.embed_texts(model, texts): one vector per text, in order
EmbedTexts(texts) == [k \in 1..Len(texts) |-> EmbedText(texts[k])]

\* FileIndexEntry(repo_id, path, language, checksum)
FileIndexEntry(repo_id, path, content) ==
    [repo_id |-> repo_id, path |-> path,
     language |-> infer_language_from_path(path), checksum |-> Sha256(content)]

\* the row an INSERT INTO code_chunks writes
ChunkRow(chunk, embedding) ==
    [repo_id |-> chunk.repo_id, path |-> chunk.path, symbol_name |-> chunk.symbol_name,
     symbol_type |-> chunk.symbol_type, start_line |-> chunk.start_line,
     end_line |-> chunk.end_line, content |-> chunk.content,
     checksum |-> chunk.checksum, embedding |-> embedding]

Range(q) == {q[k] : k \in 1..Len(q)}

\* list_indexed_paths(client, repo_id)
list_indexed_paths(rows, repo_id) == {r.path : r \in {x \in rows : x.repo_id = repo_id}}

RECURSIVE UpsertFrom_KeepExisting(_, _, _)
\* INSERT ... ON CONFLICT (repo_id, path) DO NOTHING, entry by entry
UpsertFrom_KeepExisting(rows, batch, i) ==
    IF i > Len(batch) THEN rows
    ELSE UpsertFrom_KeepExisting(
             IF \E r \in rows : r.repo_id = batch[i].repo_id /\ r.path = batch[i].path
             THEN rows ELSE rows \cup {batch[i]},
             batch, i + 1)

RECURSIVE UpsertFrom(_, _, _)
\* INSERT ... ON CONFLICT (repo_id, path) DO UPDATE, entry by entry
UpsertFrom(rows, batch, i) ==
    IF i > Len(batch) THEN rows
    ELSE UpsertFrom({r \in rows : ~(r.repo_id = batch[i].repo_id /\ r.path = batch[i].path)}
                        \cup {batch[i]},
                    batch, i + 1)

\* the rows of file_index after upsert_file_index_entries(client, batch)
upsert_file_index_entries(rows, batch) == UpsertFrom(rows, batch, 1)

\* a DELETE FROM file_index that matches no row
delete_file_index_entries_NoMatch(rows, repo_id, ps) == rows

\* the rows of file_index after delete_file_index_entries(client, repo_id, paths)
delete_file_index_entries(rows, repo_id, ps) ==
    {r \in rows : ~(r.repo_id = repo_id /\ r.path \in Range(ps))}

\* a DELETE FROM code_chunks that takes every row of the repository
delete_code_chunks_WholeRepo(rows, repo_id, ps) ==
    LET kept == {r \in DOMAIN rows : r.repo_id /= repo_id}
    IN [r \in kept |-> rows[r]]

\* DELETE FROM code_chunks WHERE repo_id = .. AND path = ANY(..): code_chunks
\* is a bag of rows, the table has no key
delete_code_chunks(rows, repo_id, ps) ==
    LET kept == {r \in DOMAIN rows : ~(r.repo_id = repo_id /\ r.path \in ps)}
    IN [r \in kept |-> rows[r]]

\* one INSERT INTO code_chunks
InsertChunkRow(rows, row) == rows (+) SetToBag({row})

\* What other connections see of a statement executed inside the open
\* transaction of `with client.connect() as conn` with autocommit on.
VisibleAfterStatement_Autocommit(committed, working) == working

\* What other connections see of a statement executed inside the open
\* transaction of `with client.connect() as conn`: psycopg connects with
\* autocommit off, nothing is visible before conn.commit().
VisibleAfterStatement(committed, working) == committed

-----------------------------------------------------------------------------
(* The indexing calls: ensure_initial_index, index_repo_full,              *)
(* index_repo_incremental, _index_paths and replace_code_chunks, one       *)
(* action per step between two awaits.                                     *)

\* the agent takes no part in an indexing call
AgentOff ==
    /\ pc = "off"
    /\ max_steps = 0
    /\ user_prompt = ""
    /\ messages = <<>>
    /\ step = 0
    /\ raw = ""
    /\ result = ""
    /\ error = ""
    /\ modelCalls = 0
    /\ toolExecs = 0
    /\ seen = <<>>
    /\ turns = <<>>
    /\ outcome = "none"

\* the store is empty (ensure_schema has created the two tables) and the
\* repository directory holds any combination of the files
InitIndex ==
    /\ AgentOff
    /\ RaceOff
    /\ RetrievalOff
    /\ InvocationOff
    /\ fs \in RepoDirs
    /\ file_index = {}
    /\ code_chunks = EmptyBag
    /\ ipc = "idle"
    /\ IndexLocalsAtRest

\* the arguments the merge handlers pass to index_repo_incremental
ChangedInputs == {<<>>, <<"a.py">>, <<"notes.md", "large.py", "b.py">>}
DeletedInputs == {<<>>, <<"b.py">>}

\* what a call returns when it returns normally
ReturnValue(c) == IF c.op = "ensure" THEN "True" ELSE "None"

\* the record of a call that begins now
StartCall(op, changed, deleted) ==
    [op |-> op, changed |-> changed, deleted |-> deleted,
     empty |-> list_indexed_paths(file_index, RepoId) = {},
     reads |-> 0, embeds |-> 0, writes |-> 0, fulls |-> 0, files |-> 0,
     prevRet |-> IF last.op = "ensure" THEN last.ret ELSE "none",
     prevEmpty |-> last.op = "ensure" /\ last.empty,
     prevFiles |-> IF last.op = "ensure" THEN last.files ELSE 0,
     unfinished |-> {}, prevUnfinished |-> last.unfinished, ioError |-> FALSE]

\* a file that passes the checks of lines 115-125
Eligible(dir, path) ==
    /\ PathExists(dir, path)
    /\ Lower(SplitExt(path)) \in ALLOWED_EXTENSIONS
    /\ FileSize(dir[path]) <= MAX_FILE_BYTES

\* the files a call that ends now has been given to index and has not stored
\* the chunks of: those of `paths` from the current one on, or all the
\* changed paths while index_repo_incremental is still deleting
NotIndexedYet(c) ==
    LET rest == IF ipc \in {"delete_entries", "delete_chunks"}
                THEN c.changed
                ELSE SubSeq(paths, idx, Len(paths))
    IN {path \in Range(rest) : Eligible(fs, path)}

\* the files left unfinished by the calls that an embedding or storage error
\* aborted and that no call has run after: an aborted call adds its own, an
\* ensure_initial_index that returns False has run nothing, and a call that
\* returns normally leaves none of its own
Unfinished(c, ret) ==
    IF ret = "error"
    THEN c.prevUnfinished \cup (IF c.ioError THEN {} ELSE NotIndexedYet(c))
    ELSE IF ret = "False" THEN c.prevUnfinished
    ELSE {}

\* the files a call that ends now has taken through the loop of _index_paths
Attempted == Range(SubSeq(paths, 1, Min(idx, Len(paths))))

\* the history entry of a completed call; what the call did is kept for
\* ensure_initial_index only
Event(c, ret) ==
    IF c.op = "ensure"
    THEN [op |-> c.op, ret |-> ret, empty |-> c.empty,
          reads |-> c.reads, embeds |-> c.embeds, writes |-> c.writes, fulls |-> c.fulls,
          files |-> c.files,
          prevRet |-> c.prevRet, prevEmpty |-> c.prevEmpty, prevFiles |-> c.prevFiles,
          unfinished |-> Unfinished(c, ret),
          reattempted |-> c.prevUnfinished \subseteq Attempted,
          ioError |-> c.ioError]
    ELSE [NoEvent EXCEPT !.op = c.op, !.ret = ret, !.empty = c.empty,
                         !.unfinished = Unfinished(c, ret),
                         !.reattempted = c.prevUnfinished \subseteq Attempted,
                         !.ioError = c.ioError]

\* the call is over: it returned ret, or an exception left it (ret = "error")
Return(c, ret) ==
    /\ ipc' = "idle"
    /\ last' = Event(c, ret)
    /\ call' = IdleCall
    /\ paths' = <<>>
    /\ idx' = 1
    /\ entries' = <<>>
    /\ cur' = NoCur

\* an exception inside the file loop that is caught there: the loop goes on
\* with the next file
FileStepFails_SkipFile(c) ==
    /\ ipc' = "file"
    /\ idx' = idx + 1
    /\ cur' = NoCur
    /\ call' = c
    /\ UNCHANGED <<last, paths, entries>>

\* an exception inside the file loop of _index_paths: nothing catches it, it
\* leaves _index_paths and the calling function
FileStepFails(c) == Return(c, "error")

\* _index_paths is entered with `paths`
BeginIndexPaths(c, ps) ==
    /\ ipc' = "file"
    /\ call' = c
    /\ paths' = ps
    /\ idx' = 1
    /\ entries' = <<>>
    /\ cur' = NoCur
    /\ last' = NoEvent

\* line 93: `if indexed`, never true
AlreadyIndexed_Never(indexed) == FALSE

\* line 93: `if indexed`
AlreadyIndexed(indexed) == indexed /= {}

\* the repository directory changes between two calls
\* (repo_syncer.ensure_repo fetches and checks out the branch)
EnsureRepo ==
    /\ ipc = "idle"
    /\ \E p \in TrackedPaths, c \in Contents \cup {Missing} :
          /\ c /= fs[p]
          /\ fs' = [fs EXCEPT ![p] = c]
    /\ last' = NoEvent
    /\ UNCHANGED <<file_index, code_chunks, tx, ipc, call, paths, idx, entries, cur>>
    /\ UNCHANGED <<agentVars, raceVars, retrievalVars, fnVars>>

\* ensure_initial_index up to its first await in _index_paths
CallEnsure ==
    /\ ipc = "idle"
    /\ \E ok \in BOOLEAN :
          LET c == StartCall("ensure", <<>>, <<>>)
          IN IF ~ok
             THEN Return(c, "error")
             ELSE IF AlreadyIndexed(list_indexed_paths(file_index, RepoId))
             THEN Return(c, "False")
             ELSE BeginIndexPaths([c EXCEPT !.fulls = 1],
                                  scan_repo_files(fs, ALLOWED_EXTENSIONS, MAX_FILE_BYTES))
    /\ UNCHANGED <<fs, file_index, code_chunks, tx>>
    /\ UNCHANGED <<agentVars, raceVars, retrievalVars, fnVars>>

\* index_repo_full up to its first await in _index_paths
CallFull ==
    /\ ipc = "idle"
    /\ BeginIndexPaths([StartCall("full", <<>>, <<>>) EXCEPT !.fulls = 1],
                       scan_repo_files(fs, ALLOWED_EXTENSIONS, MAX_FILE_BYTES))
    /\ UNCHANGED <<fs, file_index, code_chunks, tx>>
    /\ UNCHANGED <<agentVars, raceVars, retrievalVars, fnVars>>

\* index_repo_incremental up to its first await
CallIncremental ==
    /\ ipc = "idle"
    /\ \E changed \in ChangedInputs, deleted \in DeletedInputs :
          LET c == StartCall("incremental", changed, deleted)
          IN IF deleted /= <<>>
             THEN /\ ipc' = "delete_entries"
                  /\ call' = c
                  /\ last' = NoEvent
                  /\ UNCHANGED <<paths, idx, entries, cur>>
             ELSE IF changed = <<>>
             THEN Return(c, ReturnValue(c))
             ELSE BeginIndexPaths(c, changed)
    /\ UNCHANGED <<fs, file_index, code_chunks, tx>>
    /\ UNCHANGED <<agentVars, raceVars, retrievalVars, fnVars>>

\* lines 60-65: delete_file_index_entries in its own transaction
DeleteEntries ==
    /\ ipc = "delete_entries"
    /\ \E ok \in BOOLEAN :
          IF ok
          THEN /\ file_index' = delete_file_index_entries(file_index, RepoId, call.deleted)
               /\ ipc' = "delete_chunks"
               /\ call' = [call EXCEPT !.writes = @ + 1]
               /\ UNCHANGED <<last, paths, idx, entries, cur>>
          ELSE /\ Return(call, "error")
               /\ UNCHANGED file_index
    /\ UNCHANGED <<fs, code_chunks, tx>>
    /\ UNCHANGED <<agentVars, raceVars, retrievalVars, fnVars>>

\* lines 66-73: delete_code_chunks in its own transaction, then `if not
\* changed_paths: return`, else _index_paths
DeleteChunks ==
    /\ ipc = "delete_chunks"
    /\ \E ok \in BOOLEAN :
          IF ok
          THEN /\ code_chunks' = delete_code_chunks(code_chunks, RepoId, Range(call.deleted))
               /\ LET c == [call EXCEPT !.writes = @ + 1]
                  IN IF c.changed = <<>>
                     THEN Return(c, ReturnValue(c))
                     ELSE BeginIndexPaths(c, c.changed)
          ELSE /\ Return(call, "error")
               /\ UNCHANGED code_chunks
    /\ UNCHANGED <<fs, file_index, tx>>
    /\ UNCHANGED <<agentVars, raceVars, retrievalVars, fnVars>>

\* lines 113-136: one pass of `for path in paths` up to the first await: the
\* eligibility checks, the read, the entry, the chunks
IndexFile ==
    /\ ipc = "file"
    /\ idx <= Len(paths)
    /\ LET path == paths[idx]
       IN \E io \in {"ok", "getsize_fails", "read_fails"} :
             IF \/ ~PathExists(fs, path)
                \/ Lower(SplitExt(path)) \notin ALLOWED_EXTENSIONS
                \/ io = "getsize_fails"
                \/ FileSize(fs[path]) > MAX_FILE_BYTES
             THEN /\ idx' = idx + 1
                  /\ UNCHANGED <<ipc, call, paths, entries, cur, last>>
             ELSE IF io = "read_fails"
             THEN FileStepFails([call EXCEPT !.ioError = TRUE])
             ELSE LET content == fs[path]
                      chunks == chunk_file(RepoId, path, content)
                      c == [call EXCEPT !.reads = @ + 1]
                  IN IF chunks = <<>>
                     THEN FileStepFails(c)
                     ELSE /\ entries' = Append(entries, FileIndexEntry(RepoId, path, content))
                          /\ cur' = [path |-> path, chunks |-> chunks,
                                     embeddings |-> <<>>, k |-> 0]
                          /\ call' = c
                          /\ ipc' = "embed"
                          /\ UNCHANGED <<paths, idx, last>>
    /\ UNCHANGED <<fs, file_index, code_chunks, tx>>
    /\ UNCHANGED <<agentVars, raceVars, retrievalVars, fnVars>>

\* the batch's vectors put in front of those collected so far
ExtendEmbeddings_Prepend(embeddings, batch_embeddings) == batch_embeddings \o embeddings

\* line 169: embeddings.extend(batch_embeddings)
ExtendEmbeddings(embeddings, batch_embeddings) == embeddings \o batch_embeddings

\* _embed_chunks: one embed_texts call for the next batch of EMBED_BATCH_SIZE
EmbedBatch ==
    /\ ipc = "embed"
    /\ LET done == Len(cur.embeddings)
           upto == Min(done + EMBED_BATCH_SIZE, Len(cur.chunks))
           batch == [k \in 1..(upto - done) |-> cur.chunks[done + k].content]
           c == [call EXCEPT !.embeds = @ + 1]
       IN \E ok \in BOOLEAN :
             IF ok
             THEN /\ cur' = [cur EXCEPT !.embeddings = ExtendEmbeddings(@, EmbedTexts(batch))]
                  /\ call' = c
                  /\ ipc' = IF upto < Len(cur.chunks) THEN "embed" ELSE "replace"
                  /\ UNCHANGED <<paths, idx, entries, last>>
             ELSE FileStepFails(c)
    /\ UNCHANGED <<fs, file_index, code_chunks, tx>>
    /\ UNCHANGED <<agentVars, raceVars, retrievalVars, fnVars>>

\* replace_code_chunks, lines 108-112: the length check, connect, DELETE
ReplaceBegin ==
    /\ ipc = "replace"
    /\ IF Len(cur.chunks) /= Len(cur.embeddings)
       THEN /\ FileStepFails(call)
            /\ UNCHANGED <<tx, code_chunks>>
       ELSE /\ tx' = [open |-> TRUE,
                      rows |-> delete_code_chunks(code_chunks, RepoId, {cur.path})]
            /\ code_chunks' = VisibleAfterStatement(code_chunks, tx'.rows)
            /\ ipc' = "insert"
            /\ UNCHANGED <<call, paths, idx, entries, cur, last>>
    /\ UNCHANGED <<fs, file_index>>
    /\ UNCHANGED <<agentVars, raceVars, retrievalVars, fnVars>>

\* replace_code_chunks, lines 113-131: one INSERT of the zip loop
ReplaceInsert ==
    /\ ipc = "insert"
    /\ cur.k < Len(cur.chunks)
    /\ tx' = [tx EXCEPT !.rows =
                 InsertChunkRow(@, ChunkRow(cur.chunks[cur.k + 1], cur.embeddings[cur.k + 1]))]
    /\ code_chunks' = VisibleAfterStatement(code_chunks, tx'.rows)
    /\ cur' = [cur EXCEPT !.k = @ + 1]
    /\ UNCHANGED <<fs, file_index, ipc, call, paths, idx, entries, last>>
    /\ UNCHANGED <<agentVars, raceVars, retrievalVars, fnVars>>

\* replace_code_chunks, line 132: conn.commit(); then the next file of
\* _index_paths, or the return to a caller that called the store itself
ReplaceCommit ==
    /\ ipc = "insert"
    /\ cur.k = Len(cur.chunks)
    /\ code_chunks' = tx.rows
    /\ tx' = NoTx
    /\ LET c == [call EXCEPT !.writes = @ + 1]
       IN IF c.op = "replace"
          THEN Return(c, ReturnValue(c))
          ELSE /\ call' = c
               /\ idx' = idx + 1
               /\ ipc' = "file"
               /\ cur' = NoCur
               /\ UNCHANGED <<paths, entries, last>>
    /\ UNCHANGED <<fs, file_index>>
    /\ UNCHANGED <<agentVars, raceVars, retrievalVars, fnVars>>

\* replace_code_chunks: connect, a statement or the commit raises; leaving the
\* `with` block rolls the open transaction back
ReplaceFail ==
    /\ \/ ipc = "replace" /\ Len(cur.chunks) = Len(cur.embeddings)
       \/ ipc = "insert"
    /\ tx' = NoTx
    /\ FileStepFails(call)
    /\ UNCHANGED <<fs, file_index, code_chunks>>
    /\ UNCHANGED <<agentVars, raceVars, retrievalVars, fnVars>>

\* the loop taken to be over when it reaches the last file
LoopDone_BeforeLastFile(i, ps) == i >= Len(ps)

\* `for path in paths` has no file left
LoopDone(i, ps) == i > Len(ps)

\* lines 150-155: after the loop, `if entries:` upsert_file_index_entries in
\* one transaction; then _index_paths and its caller return
UpsertEntries ==
    /\ ipc = "file"
    /\ LoopDone(idx, paths)
    /\ IF entries = <<>>
       THEN /\ Return(call, ReturnValue(call))
            /\ UNCHANGED file_index
       ELSE \E ok \in BOOLEAN :
               IF ok
               THEN /\ file_index' = upsert_file_index_entries(file_index, entries)
                    /\ Return([call EXCEPT !.writes = @ + 1, !.files = Len(entries)],
                              ReturnValue(call))
               ELSE /\ Return(call, "error")
                    /\ UNCHANGED file_index
    /\ UNCHANGED <<fs, code_chunks, tx>>
    /\ UNCHANGED <<agentVars, raceVars, retrievalVars, fnVars>>

NextIndex ==
    \/ EnsureRepo
    \/ CallEnsure
    \/ CallFull
    \/ CallIncremental
    \/ DeleteEntries
    \/ DeleteChunks
    \/ IndexFile
    \/ EmbedBatch
    \/ ReplaceBegin
    \/ ReplaceInsert
    \/ ReplaceCommit
    \/ ReplaceFail
    \/ UpsertEntries

\* a single caller running indexing calls one after the other
SpecIndex == InitIndex /\ [][NextIndex]_vars

\* the chunk lists and embedding lists a caller can hand to
\* replace_code_chunks: the right vectors, one too few, one too many
EmbeddingInputs(chunks) ==
    LET right == EmbedTexts([k \in 1..Len(chunks) |-> chunks[k].content])
    IN {right, SubSeq(right, 1, Len(right) - 1), Append(right, EmbedText("extra"))}

\* a caller calls replace_code_chunks(repo_id, path, chunks, embeddings)
CallReplace ==
    /\ ipc = "idle"
    /\ \E path \in TrackedPaths, content \in Contents :
          LET chunks == chunk_file(RepoId, path, content)
          IN \E embeddings \in EmbeddingInputs(chunks) :
                /\ cur' = [path |-> path, chunks |-> chunks,
                           embeddings |-> embeddings, k |-> 0]
                /\ call' = StartCall("replace", <<>>, <<>>)
                /\ ipc' = "replace"
                /\ last' = NoEvent
    /\ UNCHANGED <<fs, file_index, code_chunks, tx, paths, idx, entries>>
    /\ UNCHANGED <<agentVars, raceVars, retrievalVars, fnVars>>

NextStore ==
    \/ CallReplace
    \/ ReplaceBegin
    \/ ReplaceInsert
    \/ ReplaceCommit
    \/ ReplaceFail

\* a caller of the store replacing the chunks of files, one call after the other
SpecStore == InitIndex /\ [][NextStore]_vars

-----------------------------------------------------------------------------
(* Claims about the indexer and the index store.                           *)

\* the rows of a code_chunks table that belong to (RepoId, path)
StoredIn(rows, path) ==
    [r \in {x \in DOMAIN rows : x.repo_id = RepoId /\ x.path = path} |-> rows[r]]

\* the rows of a file_index table that belong to (RepoId, path)
EntriesIn(rows, path) == {r \in rows : r.repo_id = RepoId /\ r.path = path}

RECURSIVE RowsFrom(_, _, _)
RowsFrom(chunks, embeddings, i) ==
    IF i > Len(chunks) THEN EmptyBag
    ELSE SetToBag({ChunkRow(chunks[i], embeddings[i])}) (+) RowsFrom(chunks, embeddings, i + 1)

\* the rows that storing chunks[i] with embeddings[i], for every i, comes to
SuppliedRows(chunks, embeddings) == RowsFrom(chunks, embeddings, 1)

\* the complete decomposition of one content version of a file, as stored
Decomposition(path, content) ==
    LET chunks == chunk_file(RepoId, path, content)
    IN SuppliedRows(chunks, EmbedTexts([k \in 1..Len(chunks) |-> chunks[k].content]))

\* the stored chunks of a path are none, or all the chunks of one version
WholeFile(rows, path) ==
    \/ StoredIn(rows, path) = EmptyBag
    \/ \E c \in Contents : StoredIn(rows, path) = Decomposition(path, c)

\* an ensure_initial_index call has just returned, and the call completed
\* immediately before it was an ensure_initial_index call on a store without
\* file entries that returned too
SecondEnsureReturned ==
    /\ ipc = "idle"
    /\ last.op = "ensure"
    /\ last.ret /= "error"
    /\ last.prevEmpty
    /\ last.prevRet /= "error"

InReplace == ipc \in {"replace", "insert"}

\* C10: replace_code_chunks is all-or-nothing per file: while it runs the
\* committed chunks do not change; when it returns normally the stored chunks
\* of the path are exactly the supplied ones and those of other paths are
\* untouched; when it raises, as it does when len(chunks) /= len(embeddings),
\* the stored chunks are what they were; and no committed state holds a part
\* of a file's chunks.
C10_ReplaceIsAllOrNothing ==
    /\ [](\A path \in TrackedPaths : WholeFile(code_chunks, path))
    /\ [][InReplace =>
            /\ ipc' /= "idle" => code_chunks' = code_chunks
            /\ (ipc' = "idle" /\ last'.ret = "error") => code_chunks' = code_chunks
            /\ (ipc' = "idle" /\ last'.ret /= "error") =>
                  /\ StoredIn(code_chunks', cur.path)
                        = SuppliedRows(cur.chunks, cur.embeddings)
                  /\ \A other \in TrackedPaths \ {cur.path} :
                        StoredIn(code_chunks', other) = StoredIn(code_chunks, other)
            /\ Len(cur.chunks) /= Len(cur.embeddings) =>
                  (ipc' = "idle" /\ last'.ret = "error")]_vars

\* a replace is half-way: in its transaction the old chunks of the file are
\* deleted and one of two new ones is inserted, and the store still shows
\* the old ones
C10_Witness ==
    /\ ipc = "insert"
    /\ Len(cur.chunks) = 2
    /\ cur.k = 1
    /\ StoredIn(code_chunks, cur.path) = Decomposition(cur.path, ContentV2)
    /\ StoredIn(tx.rows, cur.path) /= StoredIn(code_chunks, cur.path)

\* the run the merge handlers start for an event has just returned normally:
\* the full reindex of ensure_initial_index on a store without file entries,
\* or index_repo_incremental on a store with some
HandlerRunReturned ==
    /\ ipc = "idle"
    /\ last.ret \notin {"error", "none"}
    /\ \/ last.op = "ensure" /\ last.fulls = 1
       \/ last.op = "incremental" /\ ~last.empty

\* C11: after an indexing run was aborted by an embedding or storage error,
\* the next run re-attempts every file the aborted run did not finish: when
\* that next run has returned, it has taken each such file through its file
\* loop; and an aborted first full reindex leaves the store without file
\* entries.
C11_NextRunReattemptsUnfinished ==
    /\ (ipc = "idle" /\ last.op = "ensure" /\ last.empty /\ last.ret = "error")
          => list_indexed_paths(file_index, RepoId) = {}
    /\ HandlerRunReturned
          => last.reattempted

\* C12 as stated: no reindex run is aborted by a file I/O error; a file that
\* cannot be read is skipped and the run goes on.
C12_FileIoErrorNeverAborts ==
    (ipc = "idle" /\ last.ret = "error") => ~last.ioError

\* the paths an incremental run in progress leaves alone
Untouched(c) ==
    {"a.py", "b.py", "large.py", "notes.md"} \ (Range(c.changed) \cup Range(c.deleted))

MustBeSkipped(path) ==
    \/ fs[path] = Missing
    \/ path = "notes.md"
    \/ fs[path] = ContentLarge

-----------------------------------------------------------------------------
(* _embed_chunks on its own, for files of up to MaxChunks chunks.          *)

\* a repository directory without a.py and b.py
BareRepoDir ==
    [path \in {"a.py", "b.py", "large.py", "notes.md"} |->
        IF path = "notes.md" THEN ContentV2
        ELSE IF path = "large.py" THEN ContentLarge
        ELSE Missing]

\* the chunks of a file of n one-line functions
FunctionChunks(n) ==
    [k \in 1..n |->
        CodeChunk(RepoId, "a.py", "f" \o ToString(k), "function_definition", k, k,
                  "def f" \o ToString(k) \o "(): pass")]

\* _index_paths has chunked a file and calls _embed_chunks (line 137)
InitEmbed ==
    /\ AgentOff
    /\ RaceOff
    /\ RetrievalOff
    /\ InvocationOff
    /\ fs = BareRepoDir
    /\ file_index = {}
    /\ code_chunks = EmptyBag
    /\ tx = NoTx
    /\ ipc = "embed"
    /\ call = [IdleCall EXCEPT !.op = "embed"]
    /\ paths = <<>>
    /\ idx = 1
    /\ entries = <<>>
    /\ last = NoEvent
    /\ \E n \in 1..MaxChunks :
          cur = [path |-> "a.py", chunks |-> FunctionChunks(n), embeddings |-> <<>>, k |-> 0]

NextEmbed == EmbedBatch

SpecEmbed == InitEmbed /\ [][NextEmbed]_vars

\* C15: for a file of n >= 1 chunks _embed_chunks makes ceil(n / B) embed_texts
\* calls, each for the next B (at last, the remaining) chunk contents in
\* order, and returns n vectors, the i-th being the provider's vector for the
\* content of chunk i.
C15_EmbeddingsAlignWithChunks ==
    call.op = "embed" =>
        LET n == Len(cur.chunks)
            got == Len(cur.embeddings)
        IN /\ \A i \in 1..got : cur.embeddings[i] = EmbedText(cur.chunks[i].content)
           /\ ipc = "embed" => (got = call.embeds * EMBED_BATCH_SIZE /\ got < n)
           /\ ipc = "replace" =>
                 /\ got = n
                 /\ call.embeds = (n + EMBED_BATCH_SIZE - 1) \div EMBED_BATCH_SIZE

\* a file of more than two full batches has been embedded in three calls
C15_Witness ==
    /\ call.op = "embed"
    /\ ipc = "replace"
    /\ Len(cur.chunks) > 2 * EMBED_BATCH_SIZE
    /\ call.embeds = 3
    /\ Len(cur.embeddings) = Len(cur.chunks)

-----------------------------------------------------------------------------
(* Two merge handlers at a time for the same repository               *)
(* (app/review/orchestrator.py): each syncs the shared repository          *)
(* directory and runs _index_paths over a.py; the handlers are coroutines  *)
(* and take turns at every await.  Each store call is one transaction and  *)
(* is taken as one step.                                                   *)

Runs == {1, 2}

\* a handler that is not running
IdleRun ==
    [pc |-> "idle", op |-> "none", indexed |-> {}, entries |-> <<>>, chunks |-> <<>>,
     embeddings |-> <<>>]

InitRace ==
    /\ AgentOff
    /\ RetrievalOff
    /\ InvocationOff
    /\ fs \in {d \in RepoDirs : d["a.py"] /= Missing /\ d["b.py"] = Missing}
    /\ file_index = {}
    /\ code_chunks = EmptyBag
    /\ ipc = "off"
    /\ IndexLocalsAtRest
    /\ runs = [r \in Runs |-> IdleRun]

\* a lock that lets a run replace the chunks of a file only while no other
\* run is between its read of the file and its upsert
MayReplace_Exclusive(r) ==
    \A o \in Runs \ {r} : runs[o].pc \notin {"embed", "replace", "upsert"}

\* lines 142-149: replace_code_chunks is called with no lock held
MayReplace(r) == TRUE

\* the handler of an event begins: ensure_repo checks out the branch as it is
\* at that moment into the directory all handlers of the repository share
RunSync(r) ==
    /\ runs[r].pc \in {"idle", "done"}
    /\ \E c \in Contents : fs' = [fs EXCEPT !["a.py"] = c]
    /\ runs' = [runs EXCEPT ![r] = [IdleRun EXCEPT !.pc = "list"]]
    /\ UNCHANGED <<file_index, code_chunks, tx, ipc, call, paths, idx, entries, cur, last>>
    /\ UNCHANGED <<agentVars, retrievalVars, fnVars>>

\* a lock that lets a handler check the index for emptiness only while no
\* other handler is between its own check and the end of its indexing
MayList_Exclusive(r) ==
    \A o \in Runs \ {r} : runs[o].pc \notin {"file", "embed", "replace", "upsert"}

\* lines 92-95: list_indexed_paths and the full reindex that may follow are
\* separate awaits, with no lock held
MayList(r) == TRUE

\* ensure_initial_index of the handler, lines 92-94: the paths indexed at this
\* moment; if there is none the full reindex begins, else ensure_initial_index
\* returns False and the handler goes on to the review or, for a merge event,
\* to index_repo_incremental over a.py
RunList(r) ==
    /\ runs[r].pc = "list"
    /\ MayList(r)
    /\ LET indexed == list_indexed_paths(file_index, RepoId)
       IN IF AlreadyIndexed(indexed)
          THEN \E merge \in BOOLEAN :
                  runs' = [runs EXCEPT ![r].indexed = indexed,
                                       ![r].op = IF merge THEN "incremental" ELSE "none",
                                       ![r].pc = IF merge THEN "file" ELSE "done"]
          ELSE runs' = [runs EXCEPT ![r].indexed = indexed, ![r].op = "full",
                                    ![r].pc = "file"]
    /\ UNCHANGED indexVars
    /\ UNCHANGED <<agentVars, retrievalVars, fnVars>>

\* lines 113-136 for a.py: the read, the entry, the chunks
RunRead(r) ==
    /\ runs[r].pc = "file"
    /\ LET content == fs["a.py"]
       IN runs' = [runs EXCEPT ![r].pc = "embed",
                               ![r].entries = <<FileIndexEntry(RepoId, "a.py", content)>>,
                               ![r].chunks = chunk_file(RepoId, "a.py", content),
                               ![r].embeddings = <<>>]
    /\ UNCHANGED indexVars
    /\ UNCHANGED <<agentVars, retrievalVars, fnVars>>

\* lines 137-141: _embed_chunks
RunEmbed(r) ==
    /\ runs[r].pc = "embed"
    /\ runs' = [runs EXCEPT ![r].pc = "replace",
                            ![r].embeddings =
                                EmbedTexts([k \in 1..Len(runs[r].chunks) |->
                                               runs[r].chunks[k].content])]
    /\ UNCHANGED indexVars
    /\ UNCHANGED <<agentVars, retrievalVars, fnVars>>

\* lines 142-149: replace_code_chunks, one transaction
RunReplace(r) ==
    /\ runs[r].pc = "replace"
    /\ MayReplace(r)
    /\ code_chunks' = delete_code_chunks(code_chunks, RepoId, {"a.py"})
                         (+) SuppliedRows(runs[r].chunks, runs[r].embeddings)
    /\ runs' = [runs EXCEPT ![r].pc = "upsert"]
    /\ UNCHANGED <<fs, file_index, tx, ipc, call, paths, idx, entries, cur, last>>
    /\ UNCHANGED <<agentVars, retrievalVars, fnVars>>

\* lines 150-155: upsert_file_index_entries, one transaction
RunUpsert(r) ==
    /\ runs[r].pc = "upsert"
    /\ file_index' = upsert_file_index_entries(file_index, runs[r].entries)
    /\ runs' = [runs EXCEPT ![r].pc = "done"]
    /\ UNCHANGED <<fs, code_chunks, tx, ipc, call, paths, idx, entries, cur, last>>
    /\ UNCHANGED <<agentVars, retrievalVars, fnVars>>

NextRace ==
    \E r \in Runs :
        \/ RunSync(r)
        \/ RunList(r)
        \/ RunRead(r)
        \/ RunEmbed(r)
        \/ RunReplace(r)
        \/ RunUpsert(r)

SpecRace == InitRace /\ [][NextRace]_vars

-----------------------------------------------------------------------------
(* The file-entry table on its own: a caller of upsert_file_index_entries  *)
(* and delete_file_index_entries (app/storage/pg.py).                      *)

OtherRepoId == "github:o/r"

\* the entries a caller can put into a batch
EntryInputs ==
    {[repo_id |-> RepoId, path |-> "a.py", language |-> "python",
      checksum |-> Sha256(ContentV1)],
     [repo_id |-> RepoId, path |-> "a.py", language |-> "unknown",
      checksum |-> Sha256(ContentV2)],
     [repo_id |-> RepoId, path |-> "b.py", language |-> "python",
      checksum |-> Sha256(ContentV1)],
     [repo_id |-> OtherRepoId, path |-> "a.py", language |-> "python",
      checksum |-> Sha256(ContentV2)]}

\* the batches of up to MaxBatch entries
BatchInputs == UNION {[1..n -> EntryInputs] : n \in 0..MaxBatch}

\* the arguments of delete_file_index_entries
DeleteInputs ==
    {[repo_id |-> RepoId, paths |-> <<>>],
     [repo_id |-> RepoId, paths |-> <<"a.py">>],
     [repo_id |-> RepoId, paths |-> <<"a.py", "b.py">>],
     [repo_id |-> OtherRepoId, paths |-> <<"a.py">>]}

InitEntries ==
    /\ AgentOff
    /\ RaceOff
    /\ RetrievalOff
    /\ InvocationOff
    /\ fs = BareRepoDir
    /\ file_index = {}
    /\ code_chunks = EmptyBag
    /\ ipc = "idle"
    /\ IndexLocalsAtRest

\* upsert_file_index_entries(client, entries): the emptiness check, then all
\* the statements in one transaction; a storage error rolls it back
CallUpsertEntries ==
    /\ ipc = "idle"
    /\ \E batch \in BatchInputs, ok \in BOOLEAN :
          IF batch = <<>>
          THEN /\ last' = [op |-> "upsert_entries", batch |-> batch, ret |-> "ValueError"]
               /\ UNCHANGED file_index
          ELSE IF ~ok
          THEN /\ last' = [op |-> "upsert_entries", batch |-> batch, ret |-> "error"]
               /\ UNCHANGED file_index
          ELSE /\ last' = [op |-> "upsert_entries", batch |-> batch, ret |-> "None"]
               /\ file_index' = upsert_file_index_entries(file_index, batch)
    /\ UNCHANGED <<fs, code_chunks, tx, ipc, call, paths, idx, entries, cur>>
    /\ UNCHANGED <<agentVars, raceVars, retrievalVars, fnVars>>

\* delete_file_index_entries(client, repo_id, paths)
CallDeleteEntries ==
    /\ ipc = "idle"
    /\ \E args \in DeleteInputs, ok \in BOOLEAN :
          IF args.paths = <<>>
          THEN /\ last' = [op |-> "delete_entries", args |-> args, ret |-> "ValueError"]
               /\ UNCHANGED file_index
          ELSE IF ~ok
          THEN /\ last' = [op |-> "delete_entries", args |-> args, ret |-> "error"]
               /\ UNCHANGED file_index
          ELSE /\ last' = [op |-> "delete_entries", args |-> args, ret |-> "None"]
               /\ file_index' = delete_file_index_entries(file_index, args.repo_id, args.paths)
    /\ UNCHANGED <<fs, code_chunks, tx, ipc, call, paths, idx, entries, cur>>
    /\ UNCHANGED <<agentVars, raceVars, retrievalVars, fnVars>>

NextEntries == CallUpsertEntries \/ CallDeleteEntries

SpecEntries == InitEntries /\ [][NextEntries]_vars

SameKey(r1, r2) == r1.repo_id = r2.repo_id /\ r1.path = r2.path

\* what an upsert of the batch has to leave in the table: the rows of keys
\* the batch does not name, and for each key it names the last entry of it
TableAfterUpsert(rows, batch) ==
    {r \in rows : \A k \in 1..Len(batch) : ~SameKey(r, batch[k])}
        \cup {batch[k] : k \in {j \in 1..Len(batch) :
                                   \A later \in (j + 1)..Len(batch) :
                                       ~SameKey(batch[j], batch[later])}}

\* C17: the file-entry table never holds two rows of one (repo_id, path); an
\* upsert leaves, for every key of the batch, exactly the last entry the batch
\* has for it (new language and checksum), and the rows of all other keys as
\* they were; an empty batch is rejected and changes nothing; a delete removes
\* the rows of the named paths of that repository and no other.
C17_OneRowPerKeyLastWins ==
    /\ [](\A r1, r2 \in file_index : SameKey(r1, r2) => r1 = r2)
    /\ [][/\ (last'.op = "upsert_entries" /\ last'.ret = "None")
                => file_index' = TableAfterUpsert(file_index, last'.batch)
          /\ (last'.op = "upsert_entries" /\ last'.batch = <<>>)
                => (last'.ret = "ValueError" /\ file_index' = file_index)
          /\ (last'.op = "delete_entries" /\ last'.ret = "None")
                => file_index' = {r \in file_index :
                                     ~(r.repo_id = last'.args.repo_id
                                       /\ r.path \in Range(last'.args.paths))}]_vars

\* a batch with two entries for a.py has been upserted over an older row of
\* a.py: the table holds the second one, next to the row of the other
\* repository
C17_Witness ==
    /\ last.op = "upsert_entries"
    /\ last.ret = "None"
    /\ Len(last.batch) = 2
    /\ SameKey(last.batch[1], last.batch[2])
    /\ last.batch[1] /= last.batch[2]
    /\ last.batch[2] \in file_index
    /\ last.batch[1] \notin file_index
    /\ \E r \in file_index : r.repo_id = OtherRepoId

-----------------------------------------------------------------------------
(* The diff parser (app/review/diff_parser.py).                            *)

RECURSIVE SplitOnFrom(_, _, _, _)
SplitOnFrom(s, sep, i, part) ==
    IF i > Len(s) THEN <<part>>
    ELSE IF CharAt(s, i) = sep THEN <<part>> \o SplitOnFrom(s, sep, i + 1, "")
    ELSE SplitOnFrom(s, sep, i + 1, part \o CharAt(s, i))

\* str.split(sep) for a separator of one character
SplitOn(s, sep) == SplitOnFrom(s, sep, 1, "")

RECURSIVE LStripCharFrom(_, _, _)
LStripCharFrom(s, c, i) ==
    IF i > Len(s) THEN ""
    ELSE IF CharAt(s, i) = c THEN LStripCharFrom(s, c, i + 1)
    ELSE SubSeq(s, i, Len(s))

\* str.lstrip(c) for one character
LStripChar(s, c) == LStripCharFrom(s, c, 1)

Digits == "0123456789"

DigitValue(c) == (CHOOSE k \in 1..10 : CharAt(Digits, k) = c) - 1

IsDigit(c) == \E k \in 1..10 : CharAt(Digits, k) = c

RECURSIVE DigitsValue(_, _, _)
DigitsValue(s, i, acc) ==
    IF i > Len(s) THEN acc ELSE DigitsValue(s, i + 1, 10 * acc + DigitValue(CharAt(s, i)))

\* int(s) for ASCII text: an optional sign and one or more digits; Invalid
\* stands for the ValueError
ParseInt(s) ==
    LET signed == Len(s) > 0 /\ CharAt(s, 1) \in {"+", "-"}
        body == IF signed THEN SubSeq(s, 2, Len(s)) ELSE s
    IN IF body = "" \/ \E k \in 1..Len(body) : ~IsDigit(CharAt(body, k))
       THEN Invalid
       ELSE IF signed /\ CharAt(s, 1) = "-"
       THEN [int |-> 0 - DigitsValue(body, 1, 0)]
       ELSE [int |-> DigitsValue(body, 1, 0)]

\* _parse_hunk_header with the two results the other way round
ParseHunkHeader_Swapped(header) ==
    LET parts == SplitOn(header, " ")
    IN IF Len(parts) < 3 THEN Invalid
       ELSE LET old_start == ParseInt(LStripChar(SplitOn(parts[2], ",")[1], "-"))
                new_start == ParseInt(LStripChar(SplitOn(parts[3], ",")[1], "+"))
            IN IF old_start = Invalid \/ new_start = Invalid THEN Invalid
               ELSE [old |-> new_start.int, new |-> old_start.int]

\* _parse_hunk_header(header): Invalid stands for the ValueError
ParseHunkHeader(header) ==
    LET parts == SplitOn(header, " ")
    IN IF Len(parts) < 3 THEN Invalid
       ELSE LET old_start == ParseInt(LStripChar(SplitOn(parts[2], ",")[1], "-"))
                new_start == ParseInt(LStripChar(SplitOn(parts[3], ",")[1], "+"))
            IN IF old_start = Invalid \/ new_start = Invalid THEN Invalid
               ELSE [old |-> old_start.int, new |-> new_start.int]

RECURSIVE ExtractFrom(_, _, _, _, _)
\* the loop of extract_changed_line_numbers
ExtractFrom(lines, i, old_line, new_line, changed) ==
    IF i > Len(lines) THEN [ok |-> TRUE, changed |-> changed]
    ELSE LET line == lines[i]
         IN IF StartsWith(line, "@@")
            THEN LET h == ParseHunkHeader(line)
                 IN IF h = Invalid THEN [ok |-> FALSE, error |-> "ValueError"]
                    ELSE ExtractFrom(lines, i + 1, h.old, h.new, changed)
            ELSE IF StartsWith(line, "+") /\ ~StartsWith(line, "+++")
            THEN ExtractFrom(lines, i + 1, old_line, new_line + 1, Append(changed, new_line))
            ELSE IF StartsWith(line, "-") /\ ~StartsWith(line, "---")
            THEN ExtractFrom(lines, i + 1, old_line + 1, new_line, changed)
            ELSE IF StartsWith(line, " ")
            THEN ExtractFrom(lines, i + 1, old_line + 1, new_line + 1, changed)
            ELSE ExtractFrom(lines, i + 1, old_line, new_line, changed)

\* extract_changed_line_numbers(diff)
extract_changed_line_numbers(diff) == ExtractFrom(SplitLines(diff), 1, 0, 0, <<>>)

\* the lines the diffs of the model are put together from
HunkA == "@@ -1,3 +1,4 @@"
HunkB == "@@ -10 +20,2 @@ def f():"
HunkBad == "@@ bad"
DiffLines ==
    {HunkA, HunkB, HunkBad, " line1", "-line2", "+line2_new", "+++ b/a.py", "--- a/a.py",
     "\\ No newline at end of file", "index 1..2"}

\* the diff of test_extract_changed_line_numbers
TestDiff == "@@ -1,3 +1,4 @@\n line1\n-line2\n+line2_new\n+line3_new\n line4\n"

DiffInputs ==
    {TestDiff}
        \cup {Join("\n", lines) : lines \in UNION {[1..n -> DiffLines] : n \in 0..MaxDiffLines}}

\* the instances _merge_chunks is handed: the first two share their key
MergePool ==
    {CodeChunk(RepoId, "a.py", "f", "function_definition", 1, 2, "def f(): return 1"),
     CodeChunk(RepoId, "a.py", "f", "function_definition", 1, 2, "def f(): return 2"),
     CodeChunk(RepoId, "a.py", "g", "function_definition", 3, 4, "def g(): pass"),
     CodeChunk(RepoId, "b.py", "f", "function_definition", 1, 2, "def f(): return 1")}

MergeInputs == UNION {[1..n -> MergePool] : n \in 0..MaxMerge}

\* `line_chunks + similar_chunks` the other way round
Concat_SimilarFirst(line_chunks, similar_chunks) == similar_chunks \o line_chunks

\* `line_chunks + similar_chunks`
Concat(line_chunks, similar_chunks) == line_chunks \o similar_chunks

\* key = (chunk.path, chunk.symbol_name, chunk.start_line, chunk.end_line)
ChunkKey(chunk) == <<chunk.path, chunk.symbol_name, chunk.start_line, chunk.end_line>>

RECURSIVE MergeFrom(_, _, _, _)
\* the loop of _merge_chunks
MergeFrom(chunks, i, seen_keys, merged) ==
    IF i > Len(chunks) THEN merged
    ELSE IF ChunkKey(chunks[i]) \in seen_keys
    THEN MergeFrom(chunks, i + 1, seen_keys, merged)
    ELSE MergeFrom(chunks, i + 1, seen_keys \cup {ChunkKey(chunks[i])}, Append(merged, chunks[i]))

\* _merge_chunks(line_chunks, similar_chunks)
merge_chunks(line_chunks, similar_chunks) ==
    MergeFrom(Concat(line_chunks, similar_chunks), 1, {}, <<>>)

\* the line ranges chunk_file gives its chunks: start_line <= end_line
LineRanges == {ab \in (1..MaxLine) \X (1..MaxLine) : ab[1] <= ab[2]}

\* the chunks of the stored files: one per repository, path and line range
StoredChunkSet ==
    {CodeChunk(rp[1], rp[2], "f" \o ToString(ab[1]), "function_definition", ab[1], ab[2],
               "def f(): pass")
        : rp \in {RepoId, OtherRepoId} \X TrackedPaths, ab \in LineRanges}

\* code_chunks with every stored chunk once and one of them a second time
\* (the table has no key)
StoredChunkRows ==
    LET row(c) == ChunkRow(c, EmbedText(c.content))
    IN SetToBag({row(c) : c \in StoredChunkSet})
           (+) SetToBag({row(CodeChunk(RepoId, "a.py", "f1", "function_definition", 1, 1,
                                       "def f(): pass"))})

\* CodeChunk(repo_id=row[0], ..., checksum=row[7])
RowToChunk(row) ==
    [repo_id |-> row.repo_id, path |-> row.path, symbol_name |-> row.symbol_name,
     symbol_type |-> row.symbol_type, start_line |-> row.start_line,
     end_line |-> row.end_line, content |-> row.content, checksum |-> row.checksum]

RECURSIVE SumOver(_, _)
SumOver(rows, S) ==
    IF S = {} THEN 0
    ELSE LET r == CHOOSE x \in S : TRUE IN rows[r] + SumOver(rows, S \ {r})

\* the list comprehension over cur.fetchall(): the order of the rows is the
\* database's choice, the result is kept as a bag of chunks
RowsToChunks(rows) ==
    [c \in {RowToChunk(r) : r \in DOMAIN rows}
        |-> SumOver(rows, {r \in DOMAIN rows : RowToChunk(r) = c})]

\* WHERE ... start_line < %s AND end_line > %s
InLineRange_Strict(row, start_line, end_line) ==
    row.start_line < end_line /\ row.end_line > start_line

\* WHERE ... start_line <= %s AND end_line >= %s with (end_line, start_line)
InLineRange(row, start_line, end_line) ==
    row.start_line <= end_line /\ row.end_line >= start_line

\* find_chunks_for_line_range(client, repo_id, path, start_line, end_line)
find_chunks_for_line_range(rows, repo_id, path, start_line, end_line) ==
    IF start_line <= 0 \/ end_line < start_line
    THEN [ok |-> FALSE, error |-> "ValueError"]
    ELSE LET hit == {r \in DOMAIN rows :
                        r.repo_id = repo_id /\ r.path = path
                            /\ InLineRange(r, start_line, end_line)}
         IN [ok |-> TRUE, chunks |-> RowsToChunks([r \in hit |-> rows[r]])]

QueryPaths == TrackedPaths \cup {"notes.md"}

\* the calls of the retrieval functions, before they return
RetrievalCalls ==
    {[fn |-> "extract_changed_line_numbers", at |-> "called", diff |-> diff]
        : diff \in DiffInputs}
    \cup {[fn |-> "_merge_chunks", at |-> "called", line_chunks |-> l, similar_chunks |-> m]
              : l \in MergeInputs, m \in MergeInputs}
    \cup {[fn |-> "find_chunks_for_line_range", at |-> "called", repo_id |-> repo_id,
           path |-> path, start_line |-> se[1], end_line |-> se[2]]
              : repo_id \in {RepoId, OtherRepoId}, path \in QueryPaths,
                se \in (0..(MaxLine + 1)) \X (0..(MaxLine + 1))}

\* Context retrieval: build_context_package_for_change.

MAX_CONTEXT_CHARS == 4000
TOP_K_SIMILAR == 8

RECURSIVE ScanFrom(_, _, _)
\* the rows of a result set in the order the database returns them; the
\* queries leave the order among equal sort keys open, both scan directions
\* are outcomes
ScanFrom(rows, S, ascending) ==
    IF S = {} THEN <<>>
    ELSE LET key(r) == r.start_line * (MaxLine + 2) + r.end_line
             first == CHOOSE r \in S :
                          \A o \in S : IF ascending THEN key(r) <= key(o)
                                       ELSE key(r) >= key(o)
         IN [k \in 1..rows[first] |-> RowToChunk(first)]
                \o ScanFrom(rows, S \ {first}, ascending)

\* search_similar_chunks(client, repo_id, query_embedding, limit)
search_similar_chunks(rows, repo_id, query_embedding, limit, ascending) ==
    IF limit <= 0 THEN [ok |-> FALSE, error |-> "ValueError"]
    ELSE LET hit == {r \in DOMAIN rows : r.repo_id = repo_id}
             found == ScanFrom(rows, hit, ascending)
         IN [ok |-> TRUE, chunks |-> SubSeq(found, 1, Min(limit, Len(found)))]

\* the first part of _format_context, a Chinese literal of six characters
\* ("related context:"), written in ASCII
ContextHeading == "xiang guan shang xia wen:"

\* _truncate(text, max_chars)
truncate(text, max_chars) ==
    IF Len(text) <= max_chars THEN text
    ELSE SubSeq(text, 1, max_chars) \o "\n...TRUNCATED..."

RECURSIVE FormatParts(_, _)
\* the loop of _format_context: a header and a body per chunk
FormatParts(chunks, i) ==
    IF i > Len(chunks) THEN <<>>
    ELSE LET chunk == chunks[i]
             header == "- " \o chunk.path \o "::" \o chunk.symbol_name \o " ("
                           \o ToString(chunk.start_line) \o "-"
                           \o ToString(chunk.end_line) \o ")"
         IN <<header, truncate(chunk.content, MAX_CONTEXT_CHARS)>>
                \o FormatParts(chunks, i + 1)

\* _format_context(chunks)
format_context(chunks) ==
    IF chunks = <<>> THEN ""
    ELSE Join("\n", <<ContextHeading>> \o FormatParts(chunks, 1))

\* the smallest and the largest of a non-empty list of numbers
MinOf(lines) == CHOOSE x \in Range(lines) : \A y \in Range(lines) : x <= y
MaxOf(lines) == CHOOSE x \in Range(lines) : \A y \in Range(lines) : x >= y

\* the diffs of the file changes: without added lines, with added lines,
\* with a '+' line ahead of any hunk header, with a header that starts the
\* new file at line 0, and with a malformed header
ChangeDiffs ==
    {"", TestDiff, "@@ -1,2 +1 @@\n line1\n-line2", "@@ -1 +3 @@\n+a\n+b\n",
     "@@ -1,3 +1,4 @@\n line1\n+line2_new", "+x", "@@ -0,0 +0,1 @@\n+x",
     "@@ bad\n+x", "--- a/a.py\n+++ b/a.py"}

\* the calls of build_context_package_for_change, before its first step
ContextCalls ==
    {[fn |-> "build_context_package_for_change", at |-> "called", repo_id |-> repo_id,
      path |-> path, diff |-> diff, calls |-> <<>>, line_chunks |-> <<>>,
      embedding |-> "", result |-> [ok |-> TRUE, text |-> ""]]
        : repo_id \in {RepoId, OtherRepoId}, path \in QueryPaths, diff \in ChangeDiffs}

InContextPackage(at) ==
    retrieval.fn = "build_context_package_for_change" /\ retrieval.at = at

ContextRaise(calls, exc) ==
    retrieval' = [retrieval EXCEPT !.at = "raised", !.calls = calls,
                                   !.result = [ok |-> FALSE, error |-> exc]]

\* _find_changed_line_chunks: no query without changed lines, else the
\* chunks between the smallest and the largest changed line
FindChangedLineChunks ==
    /\ InContextPackage("called")
    /\ LET lines == extract_changed_line_numbers(retrieval.diff)
       IN IF ~lines.ok THEN ContextRaise(retrieval.calls, lines.error)
          ELSE IF lines.changed = <<>>
          THEN retrieval' = [retrieval EXCEPT !.at = "line_chunks"]
          ELSE LET start_line == MinOf(lines.changed)
                   end_line == MaxOf(lines.changed)
                   calls == Append(retrieval.calls,
                                [op |-> "find_chunks_for_line_range",
                                 repo_id |-> retrieval.repo_id, path |-> retrieval.path,
                                 start_line |-> start_line, end_line |-> end_line])
                   found == find_chunks_for_line_range(
                                code_chunks, retrieval.repo_id, retrieval.path,
                                start_line, end_line)
               IN IF ~found.ok THEN ContextRaise(calls, found.error)
                  ELSE \E connected \in BOOLEAN, ascending \in BOOLEAN :
                          IF ~connected THEN ContextRaise(calls, "OperationalError")
                          ELSE retrieval' =
                                   [retrieval EXCEPT
                                       !.at = "line_chunks", !.calls = calls,
                                       !.line_chunks =
                                           ScanFrom(found.chunks, DOMAIN found.chunks,
                                                    ascending)]
    /\ UNCHANGED <<agentVars, indexVars, raceVars, fnVars>>

\* _vector_search_chunks up to its first await: the embedding of the query
EmbedQuery ==
    /\ InContextPackage("line_chunks")
    /\ \E answered \in BOOLEAN :
          IF ~answered THEN ContextRaise(retrieval.calls, "HTTPStatusError")
          ELSE LET query == "path: " \o retrieval.path \o "\n" \o retrieval.diff
               IN retrieval' = [retrieval EXCEPT !.at = "embedded",
                                                 !.embedding = EmbedTexts(<<query>>)[1]]
    /\ UNCHANGED <<agentVars, indexVars, raceVars, fnVars>>

\* the similarity search, then _merge_chunks and _format_context
SearchSimilarChunks ==
    /\ InContextPackage("embedded")
    /\ LET calls == Append(retrieval.calls,
                        [op |-> "search_similar_chunks", repo_id |-> retrieval.repo_id,
                         query_embedding |-> retrieval.embedding,
                         limit |-> TOP_K_SIMILAR])
       IN \E connected \in BOOLEAN, ascending \in BOOLEAN :
             LET found == search_similar_chunks(code_chunks, retrieval.repo_id,
                                                retrieval.embedding, TOP_K_SIMILAR,
                                                ascending)
             IN IF ~found.ok THEN ContextRaise(calls, found.error)
                ELSE IF ~connected THEN ContextRaise(calls, "OperationalError")
                ELSE retrieval' =
                         [retrieval EXCEPT
                             !.at = "returned", !.calls = calls,
                             !.result =
                                 [ok |-> TRUE,
                                  text |-> format_context(
                                               merge_chunks(retrieval.line_chunks,
                                                            found.chunks))]]
    /\ UNCHANGED <<agentVars, indexVars, raceVars, fnVars>>

\* the call of retrieval function fn has returned
Returned(fn) == retrieval.fn = fn /\ retrieval.at = "returned"

InitRetrieval ==
    /\ AgentOff
    /\ RaceOff
    /\ InvocationOff
    /\ retrieval \in RetrievalCalls \cup ContextCalls
    /\ fs = <<>>
    /\ file_index = {}
    /\ code_chunks = StoredChunkRows
    /\ ipc = "off"
    /\ IndexLocalsAtRest

\* extract_changed_line_numbers returns or raises
ExtractChangedLines ==
    /\ retrieval.fn = "extract_changed_line_numbers"
    /\ retrieval.at = "called"
    /\ retrieval' = [fn |-> retrieval.fn, at |-> "returned", diff |-> retrieval.diff,
                     result |-> extract_changed_line_numbers(retrieval.diff)]
    /\ UNCHANGED <<agentVars, indexVars, raceVars, fnVars>>

\* _merge_chunks returns
MergeChunks ==
    /\ retrieval.fn = "_merge_chunks"
    /\ retrieval.at = "called"
    /\ retrieval' = [fn |-> retrieval.fn, at |-> "returned",
                     line_chunks |-> retrieval.line_chunks,
                     similar_chunks |-> retrieval.similar_chunks,
                     result |-> merge_chunks(retrieval.line_chunks, retrieval.similar_chunks)]
    /\ UNCHANGED <<agentVars, indexVars, raceVars, fnVars>>

\* find_chunks_for_line_range returns or raises
FindChunks ==
    /\ retrieval.fn = "find_chunks_for_line_range"
    /\ retrieval.at = "called"
    /\ retrieval' = [fn |-> retrieval.fn, at |-> "returned", repo_id |-> retrieval.repo_id,
                     path |-> retrieval.path, start_line |-> retrieval.start_line,
                     end_line |-> retrieval.end_line,
                     result |-> find_chunks_for_line_range(
                                    code_chunks, retrieval.repo_id, retrieval.path,
                                    retrieval.start_line, retrieval.end_line)]
    /\ UNCHANGED <<agentVars, indexVars, raceVars, fnVars>>

NextRetrieval ==
    \/ ExtractChangedLines
    \/ MergeChunks
    \/ FindChunks
    \/ FindChangedLineChunks
    \/ EmbedQuery
    \/ SearchSimilarChunks

SpecRetrieval == InitRetrieval /\ [][NextRetrieval]_vars

\* the k-th smallest element of a set of indices
NthOf(S, k) == CHOOSE i \in S : Cardinality({j \in S : j < i}) = k - 1

\* the elements of q at the indices of keep, in order
Subsequence(q, keep) == [k \in 1..Cardinality(keep) |-> q[NthOf(keep, k)]]

IsAddedLine(line) == StartsWith(line, "+") /\ ~StartsWith(line, "+++")

IsContextLine(line) == StartsWith(line, " ")

\* the start line of the new file a hunk header of DiffLines declares
DeclaredNewStart(line) == IF line = HunkA THEN 1 ELSE 20

\* the new-file number of line i of a diff: the declared start of the last
\* hunk header before it (0 before any header) plus the added and context
\* lines in between
NewLineNumber(lines, i) ==
    LET headers == {h \in 1..(i - 1) : StartsWith(lines[h], "@@")}
        h == IF headers = {} THEN 0 ELSE CHOOSE x \in headers : \A y \in headers : y <= x
        base == IF h = 0 THEN 0 ELSE DeclaredNewStart(lines[h])
    IN base + Cardinality({j \in (h + 1)..(i - 1) :
                              IsAddedLine(lines[j]) \/ IsContextLine(lines[j])})

\* C18: extract_changed_line_numbers returns, in diff order, the new-file line
\* number of every added line: a hunk header sets the counter to its declared
\* start, '+' lines (not '+++') are recorded and counted, context lines are
\* counted, '-' lines and all other lines are not; the diff of the test
\* yields [2, 3]. A diff with a malformed hunk header is rejected.
C18_AddedLinesGetNewFileNumbers ==
    Returned("extract_changed_line_numbers") =>
        LET lines == SplitLines(retrieval.diff)
            added == {i \in 1..Len(lines) : IsAddedLine(lines[i])}
            wellFormed == \A i \in 1..Len(lines) : lines[i] # HunkBad
        IN /\ retrieval.result.ok <=> wellFormed
           /\ wellFormed =>
                 retrieval.result.changed
                     = [k \in 1..Cardinality(added) |-> NewLineNumber(lines, NthOf(added, k))]
           /\ retrieval.diff = TestDiff => retrieval.result.changed = <<2, 3>>

\* a diff with two hunks whose old and new starts differ, an added line in
\* the second, has been parsed
C18_Witness ==
    /\ Returned("extract_changed_line_numbers")
    /\ retrieval.diff = Join("\n", <<HunkB, " line1", "+line2_new">>)
    /\ retrieval.result = [ok |-> TRUE, changed |-> <<21>>]

\* C19: _merge_chunks returns line_chunks followed by similar_chunks with
\* every later occurrence of a key (path, symbol_name, start_line, end_line)
\* removed: no key twice, input order kept, every key of either input
\* present, and a chunk of both inputs appears once, as the line-range
\* instance.
C19_MergeKeepsFirstOfEachKey ==
    Returned("_merge_chunks") =>
        LET line_chunks == retrieval.line_chunks
            similar_chunks == retrieval.similar_chunks
            all == line_chunks \o similar_chunks
            out == retrieval.result
            first == {i \in 1..Len(all) :
                         \A j \in 1..(i - 1) : ChunkKey(all[j]) # ChunkKey(all[i])}
        IN /\ out = Subsequence(all, first)
           /\ \A a, b \in 1..Len(out) : ChunkKey(out[a]) = ChunkKey(out[b]) => a = b
           /\ {ChunkKey(out[a]) : a \in 1..Len(out)}
                  = {ChunkKey(all[i]) : i \in 1..Len(all)}
           /\ \A i \in 1..Len(line_chunks) :
                 (/\ \A j \in 1..(i - 1) : ChunkKey(line_chunks[j]) # ChunkKey(line_chunks[i])
                  /\ \E j \in 1..Len(similar_chunks) :
                        ChunkKey(similar_chunks[j]) = ChunkKey(line_chunks[i]))
                     => \E a \in 1..Len(out) :
                           /\ out[a] = line_chunks[i]
                           /\ \A b \in 1..Len(out) :
                                 ChunkKey(out[b]) = ChunkKey(line_chunks[i]) => b = a

\* a key came in both lists as two different instances, behind another chunk
\* of the similarity list, and the merge has returned
C19_Witness ==
    /\ Returned("_merge_chunks")
    /\ Len(retrieval.line_chunks) = 1
    /\ Len(retrieval.similar_chunks) = 2
    /\ ChunkKey(retrieval.similar_chunks[2]) = ChunkKey(retrieval.line_chunks[1])
    /\ retrieval.similar_chunks[2] # retrieval.line_chunks[1]
    /\ ChunkKey(retrieval.similar_chunks[1]) # ChunkKey(retrieval.line_chunks[1])
    /\ retrieval.result = <<retrieval.line_chunks[1], retrieval.similar_chunks[1]>>

\* C20: find_chunks_for_line_range(repo_id, path, s, e) with 1 <= s <= e
\* returns a stored chunk iff it is of that repo_id and path and
\* max(chunk.start_line, s) <= min(chunk.end_line, e); no chunk of another
\* repository or path is returned.
C20_LineRangeReturnsOverlappingChunks ==
    (/\ Returned("find_chunks_for_line_range")
     /\ 1 <= retrieval.start_line
     /\ retrieval.start_line <= retrieval.end_line) =>
        /\ retrieval.result.ok
        /\ \A c \in StoredChunkSet :
              c \in DOMAIN retrieval.result.chunks
                  <=> /\ c.repo_id = retrieval.repo_id
                      /\ c.path = retrieval.path
                      /\ Max(c.start_line, retrieval.start_line)
                            <= Min(c.end_line, retrieval.end_line)
        /\ DOMAIN retrieval.result.chunks \subseteq StoredChunkSet

\* a query has returned chunks that touch only its first line and chunks
\* that touch only its last line, and left chunks of the same file out
C20_Witness ==
    /\ Returned("find_chunks_for_line_range")
    /\ retrieval.start_line = 2
    /\ retrieval.end_line = 3
    /\ retrieval.result.ok
    /\ \E c \in DOMAIN retrieval.result.chunks : c.end_line = 2
    /\ \E c \in DOMAIN retrieval.result.chunks : c.start_line = 3
    /\ \E c \in StoredChunkSet :
          /\ c.repo_id = retrieval.repo_id
          /\ c.path = retrieval.path
          /\ c \notin DOMAIN retrieval.result.chunks

-----------------------------------------------------------------------------
(* The three tools called on their own (app/agent/tools).                  *)

\* diff_by_path of the tool calls: the diffs of the run, the diffs of the
\* tests, and diffs with blank, removed and "++" lines
ToolDiffByPath ==
    [p \in DOMAIN DiffByPath \cup {"t.py", "c.py", "p.py", "i.py", "w.py", "m.py"} |->
        IF p \in DOMAIN DiffByPath THEN DiffByPath[p]
        ELSE IF p = "t.py" THEN "line1\nline2\nline3\n"
        ELSE IF p = "c.py"
        THEN "+++ b/a.py\n@@\n+def f(x):\n+    if x:\n+        return 1\n+    for i in range(3):\n+        pass"
        ELSE IF p = "p.py" THEN "++(a and b)"
        ELSE IF p = "i.py" THEN "+    eval(x)"
        ELSE IF p = "w.py" THEN "+   \n-x"
        ELSE "-if a:\n-    pass\n+y = 2"]

ToolPaths == DOMAIN ToolDiffByPath \cup {"missing.py"}

PatternPool == {"", "eval(", "import", "os.system"}

PatternInputs == UNION {[1..n -> PatternPool] : n \in 0..MaxPatterns}

RECURSIVE RiskyTried(_, _, _)
\* the number of `pattern in diff` tests the loop of find_risky_pattern has
\* made when it returns or raises
RiskyTried(patterns, i, n) ==
    IF i > Len(patterns) THEN n
    ELSE IF patterns[i] = "" THEN n
    ELSE RiskyTried(patterns, i + 1, n + 1)

\* the calls of the tools, before they return
ToolCalls ==
    {[fn |-> "get_diff_chunk", at |-> "called", args |-> [path |-> p, max_lines |-> n]]
        : p \in ToolPaths, n \in (0 - 1)..MaxLinesArg}
    \cup {[fn |-> "find_risky_pattern", at |-> "called", args |-> [path |-> p, patterns |-> ps]]
              : p \in ToolPaths, ps \in PatternInputs}
    \cup {[fn |-> "calc_python_complexity", at |-> "called", args |-> [path |-> p]]
              : p \in ToolPaths}

\* the call of fn on its own has returned or raised
Invoked(fn) == invocation.fn = fn /\ invocation.at = "returned"

InitTools ==
    /\ AgentOff
    /\ IndexOff
    /\ RaceOff
    /\ RetrievalOff
    /\ invocation \in ToolCalls

\* get_diff_chunk returns or raises
GetDiffChunk ==
    /\ invocation.fn = "get_diff_chunk"
    /\ invocation.at = "called"
    /\ invocation' = [fn |-> invocation.fn, at |-> "returned", args |-> invocation.args,
                      result |-> get_diff_chunk(invocation.args, ToolDiffByPath)]
    /\ UNCHANGED <<agentVars, indexVars, raceVars, retrievalVars>>

\* find_risky_pattern returns or raises
FindRiskyPattern ==
    /\ invocation.fn = "find_risky_pattern"
    /\ invocation.at = "called"
    /\ invocation' = [fn |-> invocation.fn, at |-> "returned", args |-> invocation.args,
                      result |-> find_risky_pattern(invocation.args, ToolDiffByPath),
                      tried |-> IF invocation.args.path \in DOMAIN ToolDiffByPath
                                THEN RiskyTried(invocation.args.patterns, 1, 0) ELSE 0]
    /\ UNCHANGED <<agentVars, indexVars, raceVars, retrievalVars>>

\* calc_python_complexity returns or raises
CalcPythonComplexity ==
    /\ invocation.fn = "calc_python_complexity"
    /\ invocation.at = "called"
    /\ invocation' = [fn |-> invocation.fn, at |-> "returned", args |-> invocation.args,
                      result |-> calc_python_complexity(invocation.args, ToolDiffByPath)]
    /\ UNCHANGED <<agentVars, indexVars, raceVars, retrievalVars>>

NextTools == GetDiffChunk \/ FindRiskyPattern \/ CalcPythonComplexity

SpecTools == InitTools /\ [][NextTools]_vars

\* C21: find_risky_pattern with an empty pattern anywhere in its list fails
\* before any pattern has been matched against the diff; with non-empty
\* patterns only, the hits are the patterns that occur in the path's diff, in
\* input order and with input multiplicity.
C21_EmptyPatternFailsBeforeAnyMatch ==
    Invoked("find_risky_pattern") =>
        LET patterns == invocation.args.patterns
            known == invocation.args.path \in DOMAIN ToolDiffByPath
            occurring == {i \in 1..Len(patterns) :
                             Contains(ToolDiffByPath[invocation.args.path], patterns[i])}
        IN /\ (\E i \in 1..Len(patterns) : patterns[i] = "")
                 => ~invocation.result.ok /\ invocation.tried = 0
           /\ (known /\ \A i \in 1..Len(patterns) : patterns[i] # "")
                 => invocation.result
                        = ToolOk(JObj([hits |->
                              JList([k \in 1..Cardinality(occurring) |->
                                        JStr(patterns[NthOf(occurring, k)])])]))

\* the start of line j in the join of lines
RECURSIVE LineOffset(_, _)
LineOffset(lines, j) == IF j <= 1 THEN 0 ELSE LineOffset(lines, j - 1) + Len(lines[j - 1]) + 1

\* text is the first k lines joined by newlines
IsJoinOfFirst(text, lines, k) ==
    /\ Len(text) = IF k = 0 THEN 0 ELSE LineOffset(lines, k) + Len(lines[k])
    /\ \A j \in 1..k :
          /\ SubSeq(text, LineOffset(lines, j) + 1, LineOffset(lines, j) + Len(lines[j]))
                = lines[j]
          /\ j < k => CharAt(text, LineOffset(lines, j) + Len(lines[j]) + 1) = "\n"

\* C22: get_diff_chunk(path, max_lines) returns the first
\* min(max_lines, line count) lines of the path's diff joined by newlines,
\* never more than max_lines lines; max_lines <= 0 raises ValueError and an
\* unknown path raises KeyError, without a chunk.
C22_DiffChunkIsBoundedPrefix ==
    Invoked("get_diff_chunk") =>
        LET args == invocation.args
            res == invocation.result
        IN IF args.max_lines <= 0 THEN res = ToolRaise("ValueError")
           ELSE IF args.path \notin DOMAIN ToolDiffByPath THEN res = ToolRaise("KeyError")
           ELSE LET lines == SplitLines(ToolDiffByPath[args.path])
                    text == res.obs.s
                IN /\ res.ok
                   /\ IsStr(res.obs)
                   /\ IsJoinOfFirst(text, lines, Min(args.max_lines, Len(lines)))
                   /\ Cardinality({i \in 1..Len(text) : CharAt(text, i) = "\n"})
                          < args.max_lines

\* the call of test_get_diff_chunk_limits_lines has cut a diff of three lines
\* to two
C22_Witness ==
    /\ Invoked("get_diff_chunk")
    /\ invocation.args = [path |-> "t.py", max_lines |-> 2]
    /\ invocation.result = ToolOk(JStr("line1\nline2"))

\* the added lines of a diff as the claim reads them: the '+' lines that are
\* not '+++', '---' or '@@' lines, without their '+'
AddedLinesOf(diff) ==
    LET lines == SplitLines(diff)
        added == {i \in 1..Len(lines) :
                     /\ StartsWith(lines[i], "+")
                     /\ ~StartsWith(lines[i], "+++")
                     /\ ~StartsWith(lines[i], "---")
                     /\ ~StartsWith(lines[i], "@@")}
    IN [k \in 1..Cardinality(added) |->
           SubSeq(lines[NthOf(added, k)], 2, Len(lines[NthOf(added, k)]))]

\* C23: calc_python_complexity scores the added lines of the path's diff
\* ('+' lines, without '+++', '---' and '@@' lines): 1 + the number of
\* branch-like constructs among them, 0 when there is no non-blank added
\* line; added lines that do not parse raise SyntaxError.
C23_ComplexityScoresAddedLines ==
    (Invoked("calc_python_complexity") /\ invocation.args.path \in DOMAIN ToolDiffByPath) =>
        LET code == Join("\n", AddedLinesOf(ToolDiffByPath[invocation.args.path]))
        IN invocation.result
               = IF IsBlank(code) THEN ToolOk(JObj([complexity |-> JInt(0)]))
                 ELSE IF AstBranchNodes(code) < 0 THEN ToolRaise("SyntaxError")
                 ELSE ToolOk(JObj([complexity |-> JInt(1 + AstBranchNodes(code))]))

-----------------------------------------------------------------------------
(* chunk_file called on its own (app/indexing/chunker.py).                 *)

\* the content of test_chunk_file_includes_imports_and_function
ContentTest ==
    "import os\nfrom typing import Any\n\ndef add(a: int, b: int) -> int:\n    return a + b"

\* Python files: empty, imports with a gap and no symbol, a class with a method
ContentEmpty == ""
ContentImports == "import os\nx = 1\nfrom a import b\n"
ContentClass == "class A:\n    def m(self):\n        pass\n"

\* a TypeScript file of one line
ContentTs == "export function g() {}\n"

\* a text with marker words: line 3 is indented, line 4 is "import" followed
\* by white space only
ContentText == "import os\nnot a match\n  from here on\nimport \nexport x\n"

\* the calls of chunk_file, before they return: Python contents under Python
\* paths, the TypeScript content under a TypeScript path, and every content
\* under paths of no known language
ChunkCalls ==
    LET python == {ContentV1, ContentV2, ContentTest, ContentEmpty, ContentImports, ContentClass}
        files == ({"a.py", "src/app.py", "B.PY"} \X python)
                     \cup ({"m.ts"} \X {ContentTs, ContentEmpty})
                     \cup ({"notes.md", "README"} \X (python \cup {ContentTs, ContentText}))
    IN {[fn |-> "chunk_file", at |-> "called",
         args |-> [repo_id |-> r, path |-> f[1], content |-> f[2]]]
           : r \in {RepoId, OtherRepoId}, f \in files}

InitChunker ==
    /\ AgentOff
    /\ IndexOff
    /\ RaceOff
    /\ RetrievalOff
    /\ invocation \in ChunkCalls

\* chunk_file returns
ChunkFile ==
    /\ invocation.fn = "chunk_file"
    /\ invocation.at = "called"
    /\ invocation' = [fn |-> invocation.fn, at |-> "returned", args |-> invocation.args,
                      result |-> chunk_file(invocation.args.repo_id, invocation.args.path,
                                            invocation.args.content)]
    /\ UNCHANGED <<agentVars, indexVars, raceVars, retrievalVars>>

NextChunker == ChunkFile

SpecChunker == InitChunker /\ [][NextChunker]_vars

\* chunk_file called on its own, or the indexing calls on a repository
InitChunks == InitChunker \/ InitIndex

NextChunks == NextChunker \/ NextIndex

SpecChunks == InitChunks /\ [][NextChunks]_vars

\* the trimmed text of line starts with keyword kw and its trailing blank:
\* white space, the keyword, and something other than white space behind it
TrimmedStartsWith(line, kw) ==
    \E j \in 1..Len(line) :
        /\ \A m \in 1..(j - 1) : IsSpace(CharAt(line, m))
        /\ j + Len(kw) - 1 <= Len(line)
        /\ SubSeq(line, j, j + Len(kw) - 1) = kw
        /\ \E m \in (j + Len(kw))..Len(line) : ~IsSpace(CharAt(line, m))

\* the indices of the lines that match an import or export marker
MarkerLines(lines) ==
    {i \in 1..Len(lines) :
        \E kw \in {"import ", "from ", "export "} : TrimmedStartsWith(lines[i], kw)}

\* C24: chunk_file emits an import chunk iff a line's trimmed text starts with
\* an import or export marker; the chunk is the first of the result, named
\* "__imports__" of type "module_imports", its content the matched lines
\* joined in order (each once, nothing of the gaps), its start_line and
\* end_line the indices of the first and last matched line.
C24_ImportChunkIsTheMatchedLines ==
    Invoked("chunk_file") =>
        LET res == invocation.result
            lines == SplitLines(invocation.args.content)
            marked == MarkerLines(lines)
            imports == {k \in 1..Len(res) : res[k].symbol_name = "__imports__"}
        IN /\ imports = IF marked = {} THEN {} ELSE {1}
           /\ marked # {} =>
                 /\ res[1].symbol_type = "module_imports"
                 /\ res[1].repo_id = invocation.args.repo_id
                 /\ res[1].path = invocation.args.path
                 /\ res[1].start_line = NthOf(marked, 1)
                 /\ res[1].end_line = NthOf(marked, Cardinality(marked))
                 /\ IsJoinOfFirst(res[1].content, Subsequence(lines, marked),
                                  Cardinality(marked))
           /\ \A k \in 1..Len(res) : res[k].symbol_type = "module_imports" => k \in imports

\* marked lines with a gap and an unmarked "import " line between them have
\* been put into one import chunk
C24_Witness ==
    /\ Invoked("chunk_file")
    /\ invocation.args.content = ContentText
    /\ invocation.result[1].content = "import os\n  from here on\nexport x"
    /\ invocation.result[1].start_line = 1
    /\ invocation.result[1].end_line = 5

\* C25: chunk_file appends exactly one whole-file chunk ("__file__", "file",
\* lines 1 to max(1, line count), the whole content) iff there is no parser
\* for the language or the parse has no symbol node; it comes after the
\* import chunk, and an empty file yields the whole-file chunk alone.
C25_FallbackIffNoSymbols ==
    Invoked("chunk_file") =>
        LET args == invocation.args
            res == invocation.result
            language == infer_language_from_path(args.path)
            tree == SyntaxTree(language, args.content)
            symbols == {k \in 1..Len(tree) : tree[k].type \in NodeTypesForLanguage(language)}
            needed == ~HasParser(language) \/ symbols = {}
            fallbacks == {k \in 1..Len(res) :
                             res[k].symbol_name = "__file__" \/ res[k].symbol_type = "file"}
            line_count == Len(SplitLines(args.content))
        IN /\ fallbacks = IF needed THEN {Len(res)} ELSE {}
           /\ needed =>
                 /\ res[Len(res)]
                       = [repo_id |-> args.repo_id, path |-> args.path,
                          symbol_name |-> "__file__", symbol_type |-> "file",
                          start_line |-> 1, end_line |-> Max(1, line_count),
                          content |-> args.content, checksum |-> Sha256(args.content)]
                 /\ Len(res) <= 2
                 /\ Len(res) = 2 => res[1].symbol_name = "__imports__"
           /\ args.content = "" => Len(res) = 1 /\ fallbacks = {1}

\* a Python file of imports only has got its import chunk and then the
\* whole-file chunk
C25_Witness ==
    /\ Invoked("chunk_file")
    /\ invocation.args.path = "a.py"
    /\ invocation.args.content = ContentImports
    /\ Len(invocation.result) = 2
    /\ invocation.result[1].symbol_name = "__imports__"
    /\ invocation.result[2].symbol_name = "__file__"
    /\ invocation.result[2].end_line = 3

\* C26: every chunk chunk_file returns and every chunk a reindex run stores,
\* committed or inside the open transaction, has 1 <= start_line <= end_line.
C26_ChunkLinesAreOrdered ==
    LET Ordered(c) == 1 <= c.start_line /\ c.start_line <= c.end_line
    IN /\ Invoked("chunk_file") =>
             \A k \in 1..Len(invocation.result) : Ordered(invocation.result[k])
       /\ \A r \in DOMAIN code_chunks : Ordered(r)
       /\ tx.open => \A r \in DOMAIN tx.rows : Ordered(r)

\* the empty file has been chunked into the one chunk of lines 1 to 1
C26_Witness ==
    /\ Invoked("chunk_file")
    /\ invocation.args.content = ""
    /\ Len(invocation.result) = 1
    /\ invocation.result[1].start_line = 1
    /\ invocation.result[1].end_line = 1

-----------------------------------------------------------------------------
(* The configuration loader (app/config.py).                               *)

LlmKeys == <<"LLM_BASE_URL", "LLM_API_KEY", "LLM_MODEL">>
IndexingKeys ==
    <<"INDEX_PG_DSN", "INDEX_EMBED_MODEL", "INDEX_EMBED_DIM", "INDEX_REPO_BASE_DIR",
      "INDEX_GIT_BIN">>
GitLabKeys == <<"GITLAB_BASE_URL", "GITLAB_TOKEN", "GITLAB_WEBHOOK_SECRET">>
GitHubKeys == <<"GITHUB_API_BASE_URL", "GITHUB_TOKEN", "GITHUB_WEBHOOK_SECRET">>

\* the fields pydantic validates as HttpUrl
UrlKeys == {"LLM_BASE_URL", "GITLAB_BASE_URL", "GITHUB_API_BASE_URL"}

\* None
None == [none |-> TRUE]

\* environ.get(k, "")
EnvGet(environ, k) == IF k \in DOMAIN environ THEN environ[k] ELSE ""

\* pydantic's HttpUrl, on the values of the model: a scheme and a host
IsHttpUrl(s) ==
    \/ StartsWith(s, "http://") /\ Len(s) > Len("http://")
    \/ StartsWith(s, "https://") /\ Len(s) > Len("https://")

\* _load_optional_group where a partial group counts as absent
load_optional_group_Lenient(environ, keys) ==
    IF \E i \in 1..Len(keys) : EnvGet(environ, keys[i]) = ""
    THEN [ok |-> TRUE, values |-> None]
    ELSE [ok |-> TRUE, values |-> [k \in Range(keys) |-> EnvGet(environ, k)]]

\* _load_optional_group(environ, keys, group_name)
load_optional_group(environ, keys) ==
    LET values == [k \in Range(keys) |-> EnvGet(environ, k)]
        present == {k \in Range(keys) : values[k] # ""}
        missing == {k \in Range(keys) : values[k] = ""}
    IN IF present = {} THEN [ok |-> TRUE, values |-> None]
       ELSE IF missing # {} THEN [ok |-> FALSE, error |-> "ValueError"]
       ELSE [ok |-> TRUE, values |-> values]

\* _load_required_group(environ, keys, group_name)
load_required_group(environ, keys) ==
    LET values == [k \in Range(keys) |-> EnvGet(environ, k)]
    IN IF \E k \in Range(keys) : values[k] = "" THEN [ok |-> FALSE, error |-> "ValueError"]
       ELSE [ok |-> TRUE, values |-> values]

\* load_config_from_env(environ); pydantic's ValidationError is a ValueError
load_config_from_env(environ) ==
    LET llm_missing == {k \in Range(LlmKeys) : k \notin DOMAIN environ \/ environ[k] = ""}
        indexing_raw == load_required_group(environ, IndexingKeys)
        gitlab_raw == load_optional_group(environ, GitLabKeys)
        github_raw == load_optional_group(environ, GitHubKeys)
    IN IF llm_missing # {} THEN [ok |-> FALSE, error |-> "ValueError"]
       ELSE IF ~indexing_raw.ok THEN [ok |-> FALSE, error |-> "ValueError"]
       ELSE IF ~gitlab_raw.ok THEN [ok |-> FALSE, error |-> "ValueError"]
       ELSE IF ~github_raw.ok THEN [ok |-> FALSE, error |-> "ValueError"]
       ELSE IF gitlab_raw.values = None /\ github_raw.values = None
       THEN [ok |-> FALSE, error |-> "ValueError"]
       ELSE IF ~IsHttpUrl(environ["LLM_BASE_URL"])
       THEN [ok |-> FALSE, error |-> "ValidationError"]
       ELSE IF ParseInt(indexing_raw.values["INDEX_EMBED_DIM"]) = Invalid
       THEN [ok |-> FALSE, error |-> "ValueError"]
       ELSE IF gitlab_raw.values # None /\ ~IsHttpUrl(gitlab_raw.values["GITLAB_BASE_URL"])
       THEN [ok |-> FALSE, error |-> "ValidationError"]
       ELSE IF github_raw.values # None /\ ~IsHttpUrl(github_raw.values["GITHUB_API_BASE_URL"])
       THEN [ok |-> FALSE, error |-> "ValidationError"]
       ELSE [ok |-> TRUE,
             config |->
               [llm |-> [base_url |-> environ["LLM_BASE_URL"],
                         api_key |-> environ["LLM_API_KEY"], model |-> environ["LLM_MODEL"]],
                embedding |-> [model |-> indexing_raw.values["INDEX_EMBED_MODEL"],
                               dimension |-> ParseInt(indexing_raw.values["INDEX_EMBED_DIM"]).int],
                index_storage |-> [dsn |-> indexing_raw.values["INDEX_PG_DSN"]],
                repo_sync |-> [base_dir |-> indexing_raw.values["INDEX_REPO_BASE_DIR"],
                               git_bin |-> indexing_raw.values["INDEX_GIT_BIN"]],
                gitlab |-> IF gitlab_raw.values = None THEN None
                           ELSE [base_url |-> gitlab_raw.values["GITLAB_BASE_URL"],
                                 token |-> gitlab_raw.values["GITLAB_TOKEN"],
                                 webhook_secret |-> gitlab_raw.values["GITLAB_WEBHOOK_SECRET"]],
                github |-> IF github_raw.values = None THEN None
                           ELSE [api_base_url |-> github_raw.values["GITHUB_API_BASE_URL"],
                                 token |-> github_raw.values["GITHUB_TOKEN"],
                                 webhook_secret |-> github_raw.values["GITHUB_WEBHOOK_SECRET"]]]]

\* a value the loader accepts for key k, as in test_config.py
GoodValue(k) ==
    IF k \in UrlKeys THEN "https://x.example.com"
    ELSE IF k = "INDEX_EMBED_DIM" THEN "3072"
    ELSE "v"

\* what the environment can hold of one group of keys: all of them, none,
\* all empty, one unset, one empty, one alone, one with a value that is no
\* URL or no number
GroupInputs(keys) ==
    LET ks == Range(keys)
        full == [k \in ks |-> GoodValue(k)]
    IN {full, [k \in {} |-> ""], [k \in ks |-> ""]}
           \cup {[k \in ks \ {x} |-> full[k]] : x \in ks}
           \cup {[full EXCEPT ![x] = ""] : x \in ks}
           \cup {[k \in {x} |-> full[k]] : x \in ks}
           \cup {[full EXCEPT ![x] = "not-a-value"] : x \in ks \cap (UrlKeys \cup {"INDEX_EMBED_DIM"})}

\* the calls of load_config_from_env, before they return
ConfigCalls ==
    {[fn |-> "load_config_from_env", at |-> "called", environ |-> a @@ b @@ c @@ d]
        : a \in GroupInputs(LlmKeys), b \in GroupInputs(IndexingKeys),
          c \in GroupInputs(GitLabKeys), d \in GroupInputs(GitHubKeys)}

InitConfig ==
    /\ AgentOff
    /\ IndexOff
    /\ RaceOff
    /\ RetrievalOff
    /\ invocation \in ConfigCalls

\* load_config_from_env returns or raises
LoadConfig ==
    /\ invocation.fn = "load_config_from_env"
    /\ invocation.at = "called"
    /\ invocation' = [fn |-> invocation.fn, at |-> "returned", environ |-> invocation.environ,
                      result |-> load_config_from_env(invocation.environ)]
    /\ UNCHANGED <<agentVars, indexVars, raceVars, retrievalVars>>

NextConfig == LoadConfig

SpecConfig == InitConfig /\ [][NextConfig]_vars

\* key k is present and non-empty in the environment
IsSet(environ, k) == k \in DOMAIN environ /\ environ[k] # ""

GroupComplete(environ, keys) == \A k \in Range(keys) : IsSet(environ, k)

GroupAbsent(environ, keys) == \A k \in Range(keys) : ~IsSet(environ, k)

\* C27: load_config_from_env returns a config only if every LLM and indexing
\* variable is set, each of the GitLab and GitHub groups is complete or
\* absent, and one of them is complete; otherwise it raises ValueError. In a
\* returned config an absent group is None and a complete group is not.
C27_ConfigNeedsCompleteGroups ==
    Invoked("load_config_from_env") =>
        LET environ == invocation.environ
            res == invocation.result
            acceptable ==
                /\ GroupComplete(environ, LlmKeys)
                /\ GroupComplete(environ, IndexingKeys)
                /\ GroupComplete(environ, GitLabKeys) \/ GroupAbsent(environ, GitLabKeys)
                /\ GroupComplete(environ, GitHubKeys) \/ GroupAbsent(environ, GitHubKeys)
                /\ GroupComplete(environ, GitLabKeys) \/ GroupComplete(environ, GitHubKeys)
        IN /\ res.ok => acceptable
           /\ ~acceptable => res = [ok |-> FALSE, error |-> "ValueError"]
           /\ res.ok =>
                 /\ res.config.gitlab = None <=> GroupAbsent(environ, GitLabKeys)
                 /\ res.config.gitlab # None <=> GroupComplete(environ, GitLabKeys)
                 /\ res.config.github = None <=> GroupAbsent(environ, GitHubKeys)
                 /\ res.config.github # None <=> GroupComplete(environ, GitHubKeys)

\* the environment of test_load_config_gitlab_only_ok, with the GitHub
\* variables set to empty strings, has given a config without GitHub
C27_Witness ==
    /\ Invoked("load_config_from_env")
    /\ GroupComplete(invocation.environ, GitLabKeys)
    /\ \A k \in Range(GitHubKeys) : k \in DOMAIN invocation.environ
    /\ invocation.result.ok
    /\ invocation.result.config.gitlab # None
    /\ invocation.result.config.github = None
    /\ invocation.result.config.embedding.dimension = 3072

-----------------------------------------------------------------------------
(* The order of the steps of one reindex run.                              *)

\* the run is inside _index_paths
InIndexPaths == ipc \in {"file", "embed", "replace", "insert"}

CallsOf(op) ==
    LET calls == retrieval.calls
    IN Subsequence(calls, {k \in 1..Len(calls) : calls[k].op = op})

\* the run has ended and neither a malformed hunk header nor a failure of
\* the database or of the embedding service has cut it short
ContextRunEnded ==
    /\ retrieval.fn = "build_context_package_for_change"
    /\ retrieval.at \in {"returned", "raised"}
    /\ extract_changed_line_numbers(retrieval.diff).ok
    /\ retrieval.at = "raised"
           => retrieval.result.error \notin {"OperationalError", "HTTPStatusError"}

\* C29: build_context_package_for_change makes no line-range query when the
\* diff has no added lines and otherwise exactly one, for the repository, the
\* path and the smallest and the largest added line; whatever the added lines
\* are, it then makes exactly one similarity search with limit TOP_K_SIMILAR.
C29_OneLineQueryThenOneSearch ==
    ContextRunEnded =>
        LET added == extract_changed_line_numbers(retrieval.diff).changed
            queries == CallsOf("find_chunks_for_line_range")
            searches == CallsOf("search_similar_chunks")
        IN /\ added = <<>> => queries = <<>>
           /\ added # <<>> =>
                  queries = <<[op |-> "find_chunks_for_line_range",
                               repo_id |-> retrieval.repo_id, path |-> retrieval.path,
                               start_line |-> MinOf(added), end_line |-> MaxOf(added)]>>
           /\ Len(searches) = 1
           /\ searches[1].repo_id = retrieval.repo_id
           /\ searches[1].limit = TOP_K_SIMILAR
           /\ retrieval.calls[Len(retrieval.calls)].op = "search_similar_chunks"

\* the turn r is a JSON action whose call names none of the registered tools
NamesUnknownTool(r) ==
    LET v == JsonLoads(r)
    IN /\ v /= JsonDecodeError
       /\ IsObj(v) /\ StrField(v, "kind") /\ v.o["kind"].s = "action"
       /\ HasKey(v, "call") /\ IsObj(v.o["call"]) /\ StrField(v.o["call"], "name")
       /\ v.o["call"].o["name"].s
              \notin {"get_diff_chunk", "find_risky_pattern", "calc_python_complexity"}

\* C30: a model turn that names a tool outside the three registered ones ends
\* the run with an error: the step that handles the turn fails the run,
\* executes no tool, appends nothing to the transcript and returns no answer.
C30_UnknownToolIsFatal ==
    [][(pc = "parsing" /\ NamesUnknownTool(raw)) =>
           /\ pc' = "failed"
           /\ outcome' = "error"
           /\ error' /= ""
           /\ toolExecs' = toolExecs
           /\ messages' = messages
           /\ result' = result]_vars

\* a run has failed on a turn that names an unregistered tool, its
\* transcript still the seeded one
C30_Witness ==
    /\ pc = "failed"
    /\ NamesUnknownTool(raw)
    /\ turns /= <<>> /\ turns[Len(turns)] = raw
    /\ outcome = "error"
    /\ toolExecs = 0
    /\ messages = SeedMessages(user_prompt)

\* C31: every line number extract_changed_line_numbers returns for a diff it
\* accepts is at least 1, so the line-range query of a context retrieval is
\* never refused as an invalid line range.
C31_ChangedLinesArePositive ==
    /\ (Returned("extract_changed_line_numbers") /\ retrieval.result.ok)
           => \A k \in 1..Len(retrieval.result.changed) : retrieval.result.changed[k] >= 1
    /\ (InContextPackage("raised") /\ extract_changed_line_numbers(retrieval.diff).ok)
           => retrieval.result.error /= "ValueError"

\* C32: no full or incremental reindex meets an empty-input rejection of the
\* store or of _embed_chunks: the two deletes run only with deleted paths,
\* chunk_file returns at least one chunk so _embed_chunks has one to embed,
\* and a run fails inside _index_paths only by a failed read or by a failed
\* store or embedding call, the upsert being called with entries only.
C32_NoEmptyInputRejection ==
    /\ [](ipc \in {"delete_entries", "delete_chunks"} => call.deleted /= <<>>)
    /\ [](ipc = "embed" => cur.chunks /= <<>>)
    /\ []((invocation.fn = "chunk_file" /\ invocation.at = "returned")
              => invocation.result /= <<>>)
    /\ [][(ipc = "file" /\ ipc' = "idle" /\ last'.ret = "error")
              => \/ last'.ioError
                 \/ LoopDone(idx, paths) /\ entries /= <<>>]_vars
    /\ [][(ipc = "file" /\ LoopDone(idx, paths) /\ entries = <<>>)
              => (file_index' = file_index /\ last'.ret /= "error")]_vars

\* an incremental run has made both deletes, has replaced the chunks of a
\* file and is about to upsert its entries
C32_Witness ==
    /\ call.op = "incremental"
    /\ call.deleted /= <<>>
    /\ call.writes >= 3
    /\ call.embeds >= 1
    /\ ipc = "file"
    /\ LoopDone(idx, paths)
    /\ entries /= <<>>

StalePaths == {p \in DOMAIN fs : ~Eligible(fs, p)}

-----------------------------------------------------------------------------
(* The webhook routes and their handlers (app/gitlab/webhook.py,           *)
(* app/github/webhook.py, app/review/orchestrator.py).  One request is     *)
(* followed from the route to its response; the indexing calls a handler   *)
(* awaits are taken as one step each, their steps are those of SpecIndex.  *)

\* build_repo_id(provider, repo_key) for the repository of the event
EventRepoId(fn) == IF fn = "gitlab_webhook" THEN RepoId ELSE OtherRepoId

\* the files of `paths` that _index_paths does not skip
EligibleOf(dir, ps) == SelectSeq(ps, LAMBDA path : Eligible(dir, path))

RECURSIVE ReplaceFiles(_, _, _, _, _)
\* code_chunks after replace_code_chunks for the first n files of ps
ReplaceFiles(rows, dir, repo_id, ps, n) ==
    IF n = 0 THEN rows
    ELSE LET chunks == chunk_file(repo_id, ps[n], dir[ps[n]])
             embeddings == EmbedTexts([k \in 1..Len(chunks) |-> chunks[k].content])
         IN delete_code_chunks(ReplaceFiles(rows, dir, repo_id, ps, n - 1), repo_id, {ps[n]})
                (+) SuppliedRows(chunks, embeddings)

\* the store after _index_paths(repo_id, repo_dir, paths) has gone through
\* its first n eligible files and, if it got to the end, through its upsert
index_paths(store, dir, repo_id, ps, n) ==
    LET files == EligibleOf(dir, ps)
        batch == [k \in 1..Len(files) |-> FileIndexEntry(repo_id, files[k], dir[files[k]])]
    IN [file_index |-> IF n = Len(files) /\ batch /= <<>>
                       THEN upsert_file_index_entries(store.file_index, batch)
                       ELSE store.file_index,
        code_chunks |-> ReplaceFiles(store.code_chunks, dir, repo_id, files, n)]

\* the store after index_repo_incremental has made its two deletes
incremental_deletes(store, repo_id, deleted_paths) ==
    IF deleted_paths = <<>> THEN store
    ELSE [file_index |-> delete_file_index_entries(store.file_index, repo_id, deleted_paths),
          code_chunks |-> delete_code_chunks(store.code_chunks, repo_id,
                                             Range(deleted_paths))]

\* the repository directory after repo_syncer.ensure_repo: the head of the
\* branch, with and without b.py
SyncedDirs ==
    {d \in RepoDirs : d["a.py"] = ContentV1 /\ d["b.py"] \in {ContentV2, Missing}}

\* the store before the request: never indexed, or the full index of a
\* directory that had both files
StoresBefore(repo_id) ==
    LET empty == [file_index |-> {}, code_chunks |-> EmptyBag]
        dir == CHOOSE d \in SyncedDirs : d["b.py"] /= Missing
        files == scan_repo_files(dir, ALLOWED_EXTENSIONS, MAX_FILE_BYTES)
    IN {empty, index_paths(empty, dir, repo_id, files, Len(files))}

\* what the source-control API lists as the files of the merge request or
\* pull request: [path, deleted]
ChangeLists ==
    {<<>>,
     <<[path |-> "a.py", deleted |-> FALSE]>>,
     <<[path |-> "a.py", deleted |-> FALSE], [path |-> "b.py", deleted |-> TRUE]>>}

GitLabActions == {"open", "update", "reopen", "merge", "close", "approved", "unapproved"}

GitHubActions ==
    {"opened", "reopened", "synchronize", "closed", "edited", "ready_for_review",
     "labeled", "unlabeled"}

Branches == {"main", "dev"}

\* a request as it reaches a route: the headers, the event of the payload and
\* what the API will list for it
Request(fn, headers, event, api_changes) ==
    [fn |-> fn, at |-> "called", headers |-> headers, event |-> event,
     api_changes |-> api_changes, handled |-> FALSE, mode |-> "none", log |-> <<>>,
     response |-> "none"]

GitLabRequests ==
    {Request("gitlab_webhook", [token_ok |-> t],
             [action |-> a, target_branch |-> b, head_sha |-> h], c)
        : t \in BOOLEAN, a \in GitLabActions, b \in Branches, h \in {"abc123", ""},
          c \in ChangeLists}

GitHubRequests ==
    {Request("github_webhook",
             [x_github_event |-> x, signature_ok |-> s, json_ok |-> j],
             [action |-> a, merged |-> m, base_ref |-> b], c)
        : x \in {"pull_request", "push"}, s \in BOOLEAN, j \in BOOLEAN,
          a \in GitHubActions, m \in BOOLEAN, b \in Branches, c \in ChangeLists}

InitWebhook ==
    /\ AgentOff
    /\ RaceOff
    /\ RetrievalOff
    /\ invocation \in GitLabRequests \cup GitHubRequests
    /\ fs \in SyncedDirs
    /\ \E store \in StoresBefore(EventRepoId(invocation.fn)) :
          /\ file_index = store.file_index
          /\ code_chunks = store.code_chunks
    /\ ipc = "off"
    /\ IndexLocalsAtRest

\* _resolve_index_branch(target_branch)
resolve_index_branch(target_branch) == IF target_branch = "main" THEN target_branch ELSE "main"

\* a route that hands "closed" events to the handler as well
GitHubHandledActions_WithClosed == {"opened", "reopened", "synchronize", "closed"}

\* github_webhook: `event.action not in (...)` is answered "ignored"
GitHubHandledActions == {"opened", "reopened", "synchronize"}

\* gitlab_webhook: `event.object_attributes.action not in (...)` is answered "ignored"
GitLabHandledActions == {"open", "update", "reopen", "merge"}

\* an incremental run after every ensure_initial_index
IncrementalFollows_Always(initial_built) == TRUE

\* `if not initial_built`: the merge handlers go on to index_repo_incremental
IncrementalFollows(initial_built) == ~initial_built

storeVars == <<fs, file_index, code_chunks>>

hookFrame == <<tx, ipc, call, paths, idx, entries, cur, last>>

InHook(fn, at) == invocation.fn = fn /\ invocation.at = at

\* the route returns `status`, or answers with an HTTP error
Respond(status, log) ==
    invocation' = [invocation EXCEPT !.at = "responded", !.response = status, !.log = log]

\* an exception leaves the handler and the route
HookRaise(log) ==
    invocation' = [invocation EXCEPT !.at = "responded", !.response = "error", !.log = log,
                                     !.handled = TRUE]

\* repo_syncer.ensure_repo(repo_id, clone_url, target_branch, ...), then on to
\* ensure_initial_index
SyncRepo(log, target_branch, mode, synced, dir) ==
    IF ~synced
    THEN /\ HookRaise(Append(log, [op |-> "ensure_repo", target_branch |-> target_branch]))
         /\ UNCHANGED fs
    ELSE /\ fs' = dir
         /\ invocation' = [invocation EXCEPT
                              !.at = "ensure", !.mode = mode,
                              !.log = Append(log, [op |-> "ensure_repo",
                                                   target_branch |-> target_branch])]

\* gitlab_webhook up to the first await of the handler: the token, the action
\* filter, the head commit of the payload
GitLabWebhook ==
    /\ InHook("gitlab_webhook", "called")
    /\ IF ~invocation.headers.token_ok THEN Respond("401", invocation.log)
       ELSE IF invocation.event.action \notin GitLabHandledActions
       THEN Respond("ignored", invocation.log)
       ELSE IF invocation.event.head_sha = "" THEN HookRaise(invocation.log)
       ELSE invocation' = [invocation EXCEPT !.at = "changes", !.handled = TRUE]
    /\ UNCHANGED <<storeVars, hookFrame, agentVars, raceVars, retrievalVars>>

\* handle (GitLab) from get_merge_request_changes to its next await: a merge
\* event goes to _handle_gitlab_merge_indexing, which returns at once for a
\* target branch other than main; every other event goes on to the review
GitLabHandle ==
    /\ InHook("gitlab_webhook", "changes")
    /\ \E answered \in BOOLEAN, synced \in BOOLEAN, dir \in SyncedDirs :
          LET log == Append(invocation.log, [op |-> "get_merge_request_changes"])
          IN IF ~answered THEN HookRaise(log) /\ UNCHANGED fs
             ELSE IF invocation.event.action = "merge"
             THEN IF invocation.event.target_branch /= "main"
                  THEN Respond("ok", log) /\ UNCHANGED fs
                  ELSE SyncRepo(log, invocation.event.target_branch, "merge", synced, dir)
             ELSE SyncRepo(log, resolve_index_branch(invocation.event.target_branch),
                           "review", synced, dir)
    /\ UNCHANGED <<file_index, code_chunks, hookFrame, agentVars, raceVars, retrievalVars>>

\* github_webhook up to the first await of the handler: the event header, the
\* signature, the JSON body, the action filter
GitHubWebhook ==
    /\ InHook("github_webhook", "called")
    /\ IF invocation.headers.x_github_event /= "pull_request"
       THEN Respond("ignored", invocation.log)
       ELSE IF ~invocation.headers.signature_ok THEN Respond("401", invocation.log)
       ELSE IF ~invocation.headers.json_ok THEN Respond("400", invocation.log)
       ELSE IF invocation.event.action \notin GitHubHandledActions
       THEN Respond("ignored", invocation.log)
       ELSE invocation' = [invocation EXCEPT !.at = "changes", !.handled = TRUE]
    /\ UNCHANGED <<storeVars, hookFrame, agentVars, raceVars, retrievalVars>>

\* handle (GitHub) from list_pull_request_files to its next await: a closed
\* and merged pull request goes to _handle_github_merge_indexing, every other
\* event goes on to the review
GitHubHandle ==
    /\ InHook("github_webhook", "changes")
    /\ \E answered \in BOOLEAN, synced \in BOOLEAN, dir \in SyncedDirs :
          LET log == Append(invocation.log, [op |-> "list_pull_request_files"])
          IN IF ~answered THEN HookRaise(log) /\ UNCHANGED fs
             ELSE IF invocation.event.action = "closed" /\ invocation.event.merged
             THEN IF invocation.event.base_ref /= "main"
                  THEN Respond("ok", log) /\ UNCHANGED fs
                  ELSE SyncRepo(log, invocation.event.base_ref, "merge", synced, dir)
             ELSE SyncRepo(log, resolve_index_branch(invocation.event.base_ref),
                           "review", synced, dir)
    /\ UNCHANGED <<file_index, code_chunks, hookFrame, agentVars, raceVars, retrievalVars>>

\* ensure_initial_index as the handlers await it: the check, and the full
\* reindex if no path is indexed; a failure leaves the chunks of the files
\* replaced so far and no file entry
HookEnsureInitialIndex ==
    /\ invocation.fn \in {"gitlab_webhook", "github_webhook"}
    /\ invocation.at = "ensure"
    /\ LET repo_id == EventRepoId(invocation.fn)
           store == [file_index |-> file_index, code_chunks |-> code_chunks]
           files == scan_repo_files(fs, ALLOWED_EXTENSIONS, MAX_FILE_BYTES)
           count == Len(EligibleOf(fs, files))
           indexed == AlreadyIndexed(list_indexed_paths(file_index, repo_id))
           log(ret) == Append(invocation.log, [op |-> "ensure_initial_index", result |-> ret])
       IN \E fails \in BOOLEAN, n \in 0..count :
             IF fails
             THEN /\ HookRaise(log("raised"))
                  /\ file_index' = file_index
                  /\ code_chunks' = IF indexed THEN code_chunks
                                    ELSE ReplaceFiles(code_chunks, fs, repo_id,
                                                      EligibleOf(fs, files), n)
             ELSE /\ n = count
                  /\ LET after == IF indexed THEN store
                                  ELSE index_paths(store, fs, repo_id, files, count)
                         initial_built == ~indexed
                     IN /\ file_index' = after.file_index
                        /\ code_chunks' = after.code_chunks
                        /\ IF invocation.mode = "review"
                           THEN invocation' = [invocation EXCEPT
                                                  !.at = "review",
                                                  !.log = log(ToString(initial_built))]
                           ELSE IF IncrementalFollows(initial_built)
                           THEN invocation' = [invocation EXCEPT
                                                  !.at = "incremental",
                                                  !.log = log(ToString(initial_built))]
                           ELSE Respond("ok", log(ToString(initial_built)))
    /\ UNCHANGED <<fs, hookFrame, agentVars, raceVars, retrievalVars>>

\* index_repo_incremental as the merge handlers await it, with the changed
\* and the deleted paths of the event
HookIncremental ==
    /\ invocation.fn \in {"gitlab_webhook", "github_webhook"}
    /\ invocation.at = "incremental"
    /\ LET repo_id == EventRepoId(invocation.fn)
           listed == invocation.api_changes
           changed_paths == [k \in 1..Len(SelectSeq(listed, LAMBDA c : ~c.deleted))
                                |-> SelectSeq(listed, LAMBDA c : ~c.deleted)[k].path]
           deleted_paths == [k \in 1..Len(SelectSeq(listed, LAMBDA c : c.deleted))
                                |-> SelectSeq(listed, LAMBDA c : c.deleted)[k].path]
           store == [file_index |-> file_index, code_chunks |-> code_chunks]
           deleted == incremental_deletes(store, repo_id, deleted_paths)
           count == Len(EligibleOf(fs, changed_paths))
           log == Append(invocation.log,
                         [op |-> "index_repo_incremental", changed_paths |-> changed_paths,
                          deleted_paths |-> deleted_paths])
       IN \E fails \in BOOLEAN, n \in 0..count :
             IF fails
             THEN /\ HookRaise(log)
                  /\ \E after \in {store,
                                   [file_index |-> deleted.file_index,
                                    code_chunks |-> ReplaceFiles(deleted.code_chunks, fs, repo_id,
                                                                 EligibleOf(fs, changed_paths), n)]} :
                        /\ file_index' = after.file_index
                        /\ code_chunks' = after.code_chunks
             ELSE /\ n = count
                  /\ LET after == index_paths(deleted, fs, repo_id, changed_paths, count)
                     IN /\ file_index' = after.file_index
                        /\ code_chunks' = after.code_chunks
                  /\ Respond("ok", log)
    /\ UNCHANGED <<fs, hookFrame, agentVars, raceVars, retrievalVars>>

\* run_review: the plan, the context packages, the file reviews, the body
HookRunReview ==
    /\ invocation.fn \in {"gitlab_webhook", "github_webhook"}
    /\ invocation.at = "review"
    /\ LET log == Append(invocation.log, [op |-> "run_review"])
       IN \E fails \in BOOLEAN :
             IF fails THEN HookRaise(log)
             ELSE invocation' = [invocation EXCEPT !.at = "post", !.log = log]
    /\ UNCHANGED <<storeVars, hookFrame, agentVars, raceVars, retrievalVars>>

\* post_merge_request_note / create_pull_request_review with the body
HookPost ==
    /\ invocation.fn \in {"gitlab_webhook", "github_webhook"}
    /\ invocation.at = "post"
    /\ LET log == Append(invocation.log,
                         [op |-> IF invocation.fn = "gitlab_webhook"
                                 THEN "post_merge_request_note"
                                 ELSE "create_pull_request_review"])
       IN \E fails \in BOOLEAN : IF fails THEN HookRaise(log) ELSE Respond("ok", log)
    /\ UNCHANGED <<storeVars, hookFrame, agentVars, raceVars, retrievalVars>>

NextWebhook ==
    \/ GitLabWebhook
    \/ GitLabHandle
    \/ GitHubWebhook
    \/ GitHubHandle
    \/ HookEnsureInitialIndex
    \/ HookIncremental
    \/ HookRunReview
    \/ HookPost

SpecWebhook == InitWebhook /\ [][NextWebhook]_vars

\* the operations a handler has called so far, in order
OpsOf(log) == [k \in 1..Len(log) |-> log[k].op]

\* the paths of the listed changes that are deleted, or that are not
PathsOf(listed, deleted) ==
    LET keep == {k \in 1..Len(listed) : listed[k].deleted = deleted}
    IN [k \in 1..Cardinality(keep) |-> listed[NthOf(keep, k)].path]

GitLabMergeEvent == invocation.fn = "gitlab_webhook" /\ invocation.event.action = "merge"

C36_ClosedEventsNeverReachHandler ==
    invocation.fn = "github_webhook" =>
        /\ invocation.handled
               => invocation.event.action \in {"opened", "reopened", "synchronize"}
        /\ invocation.event.action = "closed"
               => /\ invocation.log = <<>>
                  /\ invocation.at \in {"called", "responded"}
                  /\ (/\ invocation.at = "responded"
                      /\ invocation.headers.x_github_event = "pull_request"
                      /\ invocation.headers.signature_ok
                      /\ invocation.headers.json_ok) => invocation.response = "ignored"
        /\ invocation.mode /= "merge"
        /\ \A k \in 1..Len(invocation.log) : invocation.log[k].op /= "index_repo_incremental"

\* a closed and merged pull request into main, properly signed, has been
\* answered "ignored" with the store as it was
C36_Witness ==
    /\ invocation.fn = "github_webhook"
    /\ invocation.event.action = "closed"
    /\ invocation.event.merged
    /\ invocation.event.base_ref = "main"
    /\ invocation.headers.x_github_event = "pull_request"
    /\ invocation.headers.signature_ok
    /\ invocation.headers.json_ok
    /\ invocation.api_changes /= <<>>
    /\ invocation.at = "responded"
    /\ invocation.response = "ignored"
    /\ ~invocation.handled

=============================================================================
